---- MODULE Spec2Model ----
(***************************************************************************)
(* A model of the workflow engine of kkwook20/One:                         *)
(*   - WorkflowEngine (backend/app/core/engine.py): the execution order,   *)
(*     the run loop of one execution instance, stop_execution and the      *)
(*     fan-out of events to the subscribed clients;                        *)
(*   - FlowNode (backend/nodes/flow.py): validate_dependencies and         *)
(*     group_by_dependencies.                                              *)
(*                                                                         *)
(* The engine runs on one asyncio event loop: a task keeps the loop until  *)
(* it awaits something that suspends.  The variable cur names the task     *)
(* that holds the loop (0: the loop is free); every handler and every      *)
(* resumption of a task needs cur = 0, a task that has not suspended goes  *)
(* on alone.                                                               *)
(***************************************************************************)
EXTENDS Integers, Sequences, FiniteSets, TLC

\* ------------------------------------------------------------------ bounds
\* Graphs given to the planners (execution order, flow plan): nodes, edges.
PlanNodes == 3
PlanEdges == 3
\* Workflows the engine runs: nodes, edges; the clients that subscribe.
RunNodes == 2
RunEdges == 1
NumClients == 2
\* The execute_workflow calls made where runs are followed side by side, and
\* the nodes of the workflow they run.
MaxCalls == 2
CallNodes == 1
\* The arguments of _collect_input_data: edges of the workflow, upstream nodes.
MaxInEdges == 2
MaxSources == 2
\* The items of the executionList given to execute_flow_node.
MaxItems == 2
\* The calls of PythonExecutor.stop_execution for one isolated execution.
MaxStops == 2
\* The pieces of output the child's program writes before the result.
MaxOut == 3

VARIABLES
    nodes,      \* workflow.nodes: the node ids in declaration order
    edges,      \* workflow.edges: the set of <<source, target>>
    dfs,        \* the activation of _get_execution_order / visit
    vd,         \* the activation of FlowNode.validate_dependencies
    gb,         \* the activation of FlowNode.group_by_dependencies
    continueOnError,    \* workflow.settings.get("continueOnError", False)
    subscriptions,      \* engine.subscriptions[workflow.id]: client ids
    executions,         \* engine.executions, with each run task's locals
    cur,                \* the execution whose code holds the event loop, or 0
    budget,             \* the number of execute_workflow calls the clients make
    requests,           \* history: the execute_workflow calls and their results
    collect,            \* one call of _collect_input_data: arguments and result
    dispatch,           \* one dispatch of a node by its type tag: path, tag, outcome
    iso,                \* PythonExecutor: one isolated execution, its child process
                        \* and the stop_execution calls for it
    parse,              \* one call of parse_isolated_result: stdout and result
    ws,                 \* the WebSocket endpoint: connections and subscription sets
    sched,              \* SchedulerNode: the task queue and the optimized schedule
    flow,               \* FlowNode: the flow executions on the shared instance
    wsm                 \* WebSocketManager: clients, channels, node owners

planVars == <<dfs, vd, gb>>
\* The calls that are followed on their own, outside a run of the engine.
callVars == <<collect, dispatch, iso, parse, ws, sched, flow, wsm>>
engineVars == <<continueOnError, subscriptions, executions, cur, budget, requests,
                callVars>>
\* The workflow, the planners and the engine.
runVars == <<nodes, edges, planVars, continueOnError, subscriptions, executions, cur,
             budget, requests>>
vars == <<nodes, edges, dfs, vd, gb, continueOnError, subscriptions, executions, cur,
          budget, requests, collect, dispatch, iso, parse, ws, sched, flow, wsm>>

\* No call of _collect_input_data is followed.
CollectIdle == [st |-> "idle"]

\* No dispatch is followed.
DispatchIdle == [st |-> "idle"]

\* No isolated execution is followed.
IsoIdle == [st |-> "idle"]

\* No call of parse_isolated_result is followed.
ParseIdle == [st |-> "idle"]

\* The WebSocket endpoint is not followed.
WsIdle == [st |-> "idle"]

\* No call of the scheduler node is followed.
SchedIdle == [st |-> "idle"]

\* No flow execution is followed.
FlowIdle == [st |-> "idle"]

\* The WebSocketManager is not followed.
WsmIdle == [st |-> "idle"]

\* None of the calls outside the engine is followed.
CallsIdle ==
    /\ collect = CollectIdle
    /\ dispatch = DispatchIdle
    /\ iso = IsoIdle
    /\ parse = ParseIdle
    /\ ws = WsIdle
    /\ sched = SchedIdle
    /\ flow = FlowIdle
    /\ wsm = WsmIdle

\* ------------------------------------------------------------------ graphs
\* The one id that edges may name although no node has it.
Dangling == Len(nodes) + 1

NodeSet == {nodes[i] : i \in 1..Len(nodes)}

RECURSIVE SubsetsUpTo(_, _)
SubsetsUpTo(S, m) ==
    IF m = 0 \/ S = {} THEN {{}}
    ELSE LET x == CHOOSE y \in S : TRUE
             rest == S \ {x}
         IN SubsetsUpTo(rest, m) \cup {T \cup {x} : T \in SubsetsUpTo(rest, m - 1)}

\* Every edge list over k nodes and the dangling id k+1, of at most m edges.
Graphs(k, m) == SubsetsUpTo((1..(k + 1)) \X (1..(k + 1)), m)

\* ------------------------------------------------- _get_execution_order
\* dependencies[edge.target].add(edge.source), mutated: the edge reversed.
DepsReversed(n) == {e[2] : e \in {d \in edges : d[1] = n}}

\* dependencies[n] after the loop over workflow.edges.
Deps(n) == {e[1] : e \in {d \in edges : d[2] = n}}

DfsIdle == [st |-> "idle", stack |-> <<>>, visited |-> {}, order |-> <<>>, next |-> 1]

\* Variant of VisitCall in which an id that is no node is passed over.
VisitCallLenient(n, s) ==
    IF n \in s.visited \/ n \notin NodeSet THEN s
    ELSE [s EXCEPT !.visited = @ \cup {n},
                   !.stack = Append(@, [node |-> n, rem |-> {e[1] : e \in {d \in edges : d[2] = n}}])]

\* visit(n) up to its loop over dependencies[n]: a visited node returns at
\* once; else it is added to visited and dependencies[n] is looked up, which
\* raises KeyError for an id that is no node.
VisitCall(n, s) ==
    IF n \in s.visited THEN s
    ELSE IF n \notin NodeSet
         THEN [s EXCEPT !.st = "error", !.visited = @ \cup {n}]
         ELSE [s EXCEPT !.visited = @ \cup {n},
                        !.stack = Append(@, [node |-> n, rem |-> Deps(n)])]

\* The dependency graph is built: an edge whose target is no node raises
\* KeyError at dependencies[edge.target].
OrderBuild ==
    /\ dfs.st = "build"
    /\ dfs' = IF \E e \in edges : e[2] \notin NodeSet
              THEN [dfs EXCEPT !.st = "error"]
              ELSE [dfs EXCEPT !.st = "run"]
    /\ UNCHANGED <<nodes, edges, vd, gb, engineVars>>

\* for node in workflow.nodes: visit(node.id); return order
OrderOuter ==
    /\ dfs.st = "run"
    /\ dfs.stack = <<>>
    /\ dfs' = IF dfs.next <= Len(nodes)
              THEN VisitCall(nodes[dfs.next], [dfs EXCEPT !.next = @ + 1])
              ELSE [dfs EXCEPT !.st = "done"]
    /\ UNCHANGED <<nodes, edges, vd, gb, engineVars>>

\* for dep_id in dependencies[node_id]: visit(dep_id)   (a set: any order)
OrderIter ==
    /\ dfs.st = "run"
    /\ dfs.stack /= <<>>
    /\ LET top == Len(dfs.stack)
       IN \E d \in dfs.stack[top].rem :
            dfs' = VisitCall(d, [dfs EXCEPT !.stack[top].rem = @ \ {d}])
    /\ UNCHANGED <<nodes, edges, vd, gb, engineVars>>

\* order.append(node_id), and visit returns
OrderAppend ==
    /\ dfs.st = "run"
    /\ dfs.stack /= <<>>
    /\ LET top == Len(dfs.stack)
       IN /\ dfs.stack[top].rem = {}
          /\ dfs' = [dfs EXCEPT !.order = Append(@, dfs.stack[top].node),
                                !.stack = SubSeq(@, 1, top - 1)]
    /\ UNCHANGED <<nodes, edges, vd, gb, engineVars>>

\* ------------------------------------------------ FlowNode: the flow plan
\* create_execution_plan's entries for an execution list that names every
\* node once, in declaration order, with the node's dependencies (no manager
\* nodes): the entry's nodeId and dependencies.
FlowPlan == [i \in 1..Len(nodes) |-> [nodeId |-> nodes[i], dependencies |-> Deps(nodes[i])]]

\* node_index = {item['nodeId']: idx for idx, item in enumerate(plan)}
InNodeIndex(plan, id) == \E i \in 1..Len(plan) : plan[i].nodeId = id
NodeIndex(plan, id) == CHOOSE i \in 1..Len(plan) :
    plan[i].nodeId = id /\ \A j \in (i + 1)..Len(plan) : plan[j].nodeId /= id

VdIdle == [st |-> "idle", stack |-> <<>>, visited |-> {}, validated |-> <<>>, next |-> 1]

\* visit(item) up to its loop over item['dependencies'].
VdVisit(item, s) ==
    IF item.nodeId \in s.visited THEN s
    ELSE [s EXCEPT !.visited = @ \cup {item.nodeId},
                   !.stack = Append(@, [item |-> item, rem |-> item.dependencies])]

ValidateBegin ==
    /\ dfs.st \in {"done", "error"}
    /\ vd.st = "idle"
    /\ vd' = [vd EXCEPT !.st = "run"]
    /\ UNCHANGED <<nodes, edges, dfs, gb, engineVars>>

\* for item in plan: visit(item); then the orders are reassigned and
\* validated is returned.
ValidateOuter ==
    /\ vd.st = "run"
    /\ vd.stack = <<>>
    /\ vd' = IF vd.next <= Len(FlowPlan)
             THEN VdVisit(FlowPlan[vd.next], [vd EXCEPT !.next = @ + 1])
             ELSE [vd EXCEPT !.st = "done"]
    /\ UNCHANGED <<nodes, edges, dfs, gb, engineVars>>

\* for dep in item['dependencies']:
\*     if dep in node_index and dep not in visited: visit(plan[node_index[dep]])
ValidateIter ==
    /\ vd.st = "run"
    /\ vd.stack /= <<>>
    /\ LET top == Len(vd.stack)
       IN \E d \in vd.stack[top].rem :
            LET s == [vd EXCEPT !.stack[top].rem = @ \ {d}]
            IN vd' = IF InNodeIndex(FlowPlan, d) /\ d \notin vd.visited
                     THEN VdVisit(FlowPlan[NodeIndex(FlowPlan, d)], s)
                     ELSE s
    /\ UNCHANGED <<nodes, edges, dfs, gb, engineVars>>

\* validated.append(item), and visit returns
ValidateAppend ==
    /\ vd.st = "run"
    /\ vd.stack /= <<>>
    /\ LET top == Len(vd.stack)
       IN /\ vd.stack[top].rem = {}
          /\ vd' = [vd EXCEPT !.validated = Append(@, vd.stack[top].item),
                              !.stack = SubSeq(@, 1, top - 1)]
    /\ UNCHANGED <<nodes, edges, dfs, gb, engineVars>>

\* ------------------------------------------ FlowNode.group_by_dependencies
GbIdle == [st |-> "idle", completed |-> {}, groups |-> <<>>]

\* The entries of plan that fit the predicate, in the plan's order.
RECURSIVE Frontier(_, _, _)
Frontier(plan, completed, i) ==
    IF i > Len(plan) THEN <<>>
    ELSE IF plan[i].nodeId \notin completed /\ plan[i].dependencies \subseteq completed
         THEN <<plan[i]>> \o Frontier(plan, completed, i + 1)
         ELSE Frontier(plan, completed, i + 1)

IdsOf(group) == {group[i].nodeId : i \in 1..Len(group)}

\* One test of the while condition and one pass of its body, mutated: an
\* empty frontier does not leave the loop.
GroupPassNoBreak(plan, g) ==
    IF Cardinality(g.completed) < Len(plan)
    THEN LET group == Frontier(plan, g.completed, 1)
         IN IF group /= <<>>
            THEN [g EXCEPT !.groups = Append(@, group),
                           !.completed = @ \cup IdsOf(group)]
            ELSE g
    ELSE [g EXCEPT !.st = "returned"]

\* One test of the while condition and one pass of its body: the frontier is
\* collected; a non-empty one becomes the next group, an empty one breaks,
\* and groups is returned.
GroupPass(plan, g) ==
    IF Cardinality(g.completed) < Len(plan)
    THEN LET group == Frontier(plan, g.completed, 1)
         IN IF group /= <<>>
            THEN [g EXCEPT !.groups = Append(@, group),
                           !.completed = @ \cup IdsOf(group)]
            ELSE [g EXCEPT !.st = "returned"]
    ELSE [g EXCEPT !.st = "returned"]

\* execute_parallel calls group_by_dependencies on the validated plan.
GroupBegin ==
    /\ vd.st = "done"
    /\ gb.st = "idle"
    /\ gb' = [gb EXCEPT !.st = "run"]
    /\ UNCHANGED <<nodes, edges, dfs, vd, engineVars>>

GroupIter ==
    /\ gb.st = "run"
    /\ gb' = GroupPass(vd.validated, gb)
    /\ UNCHANGED <<nodes, edges, dfs, vd, engineVars>>

\* ------------------------------------------------------ the planners alone
PlanInit ==
    /\ nodes = [i \in 1..PlanNodes |-> i]
    /\ edges \in Graphs(PlanNodes, PlanEdges)
    /\ dfs = [DfsIdle EXCEPT !.st = "build"]
    /\ vd = VdIdle
    /\ gb = GbIdle
    /\ continueOnError = FALSE
    /\ subscriptions = {}
    /\ executions = <<>>
    /\ cur = 0
    /\ budget = 0
    /\ requests = <<>>
    /\ CallsIdle

PlanNext ==
    \/ OrderBuild \/ OrderOuter \/ OrderIter \/ OrderAppend
    \/ ValidateBegin \/ ValidateOuter \/ ValidateIter \/ ValidateAppend
    \/ GroupBegin \/ GroupIter

PlanSpec == PlanInit /\ [][PlanNext]_vars

\* Each walk is a run of code that nothing interrupts: it takes its next step.
PlanLive == PlanSpec /\ WF_vars(PlanNext)

\* ------------------------------------------------- WorkflowEngine: events
Clients == 1..NumClients

\* The state of one `for client_id in self.subscriptions[...]` loop, whose
\* body awaits send_message: called ("ready"), suspended in a send
\* ("sending": used is the set's size when the iterator was made, pos the
\* client it yielded last), returned ("none") or raised ("raised").  A set
\* iterator walks the hash table's slots; the clients stand in the table in
\* the order of their ids.
FanNone == [st |-> "none", used |-> 0, pos |-> 0]
FanReady == [st |-> "ready", used |-> 0, pos |-> 0]
FanRaised == [st |-> "raised", used |-> 0, pos |-> 0]

\* The clients the iterator has yet to reach.
Ahead(pos) == {c \in subscriptions : c > pos}
First(S) == CHOOSE c \in S : \A d \in S : c <= d

\* The ids of the instances in engine.executions.  An instance's id is a
\* fresh uuid4; here it is the instance's place in the registry.
Ids == DOMAIN executions

\* The places of the run task where the event sent is a log (_add_log ->
\* _notify_log); at every other place it is an execution_update or a
\* node_update, which carries the status.
LogCalls == {"node_log", "fail_log"}

\* The places where the event sent is a node_update.
NodeCalls == {"node_running", "node_finally"}

\* What is unannounced after the event of place pc: a log announces no
\* status, a node_update that of a node, an execution_update carries the
\* whole instance.
Announced(u, pc) ==
    IF pc \in LogCalls THEN u
    ELSE IF pc \in NodeCalls THEN (IF u = "node" THEN "none" ELSE u)
    ELSE "none"

\* What is unannounced after a node's status has been set.
NodeMarked(u) == IF u = "instance" THEN u ELSE "node"

\* The event loop runs the tasks that are ready before it takes up what
\* waits for input or output: a log task that has been made runs before any
\* send returns and before any message of a client is handled.
NoTaskReady == \A e \in Ids : executions[e].logtask.st /= "ready"

\* _notify_*: the loop starts.  Without subscribers it ends at once and the
\* caller goes on; else the first send suspends the caller.
FanStartStep ==
    \E e \in Ids :
    /\ cur = e
    /\ executions[e].fan.st = "ready"
    /\ \/ /\ subscriptions = {}
          /\ executions' = [executions EXCEPT ![e].fan = FanNone,
                ![e].unannounced = Announced(@, executions[e].pc)]
          /\ UNCHANGED cur
       \/ /\ subscriptions /= {}
          /\ executions' = [executions EXCEPT ![e].fan =
                [st |-> "sending", used |-> Cardinality(subscriptions),
                 pos |-> First(subscriptions)],
                ![e].unannounced = Announced(@, executions[e].pc)]
          /\ cur' = 0
    /\ UNCHANGED <<budget, requests, nodes, edges, planVars, continueOnError, subscriptions>>

FanStart ==
    /\ FanStartStep
    /\ UNCHANGED callVars

\* A send has returned and the set iterator is asked for its next client:
\* it raises RuntimeError (Set changed size during iteration) when the set's
\* size is not what it was, ends when no client is ahead, else yields the
\* next client, whose send suspends again.
FanResumeStep ==
    \E e \in Ids :
    /\ cur = 0
    /\ NoTaskReady
    /\ executions[e].fan.st = "sending"
    /\ \/ /\ Cardinality(subscriptions) /= executions[e].fan.used
          /\ executions' = [executions EXCEPT ![e].fan = FanRaised]
          /\ cur' = e
       \/ /\ Cardinality(subscriptions) = executions[e].fan.used
          /\ Ahead(executions[e].fan.pos) = {}
          /\ executions' = [executions EXCEPT ![e].fan = FanNone]
          /\ cur' = e
       \/ /\ Cardinality(subscriptions) = executions[e].fan.used
          /\ Ahead(executions[e].fan.pos) /= {}
          /\ executions' = [executions EXCEPT
                ![e].fan.pos = First(Ahead(executions[e].fan.pos))]
          /\ UNCHANGED cur
    /\ UNCHANGED <<budget, requests, nodes, edges, planVars, continueOnError, subscriptions>>

FanResume ==
    /\ FanResumeStep
    /\ UNCHANGED callVars

\* subscribe_client: the client is added to the set.
SubscribeClient ==
    \E c \in Clients :
    /\ cur = 0
    /\ NoTaskReady
    /\ c \notin subscriptions
    /\ subscriptions' = subscriptions \cup {c}
    /\ UNCHANGED <<callVars, budget, requests, nodes, edges, planVars, continueOnError, executions, cur>>

\* unsubscribe_client / unsubscribe_all: the client is discarded.
UnsubscribeClient ==
    \E c \in Clients :
    /\ cur = 0
    /\ NoTaskReady
    /\ c \in subscriptions
    /\ subscriptions' = subscriptions \ {c}
    /\ UNCHANGED <<callVars, budget, requests, nodes, edges, planVars, continueOnError, executions, cur>>

\* ---------------------------------------- WorkflowEngine.execute_workflow
\* WorkflowExecution(...) with a NodeExecution(WAITING) for every node.  In a
\* node record output_data "unset" is the None it is made with: the node has
\* no entry in node_outputs.  raised is history: the nodes whose executor
\* raised; unannounced is history: a status of the instance ("instance") or
\* of a node ("node") has been set and no execution_update, or no
\* node_update, has been sent since.
\* logtask is the task made by the executor's log callback (its loop over
\* the subscribers, as fan is the run task's).
NewExecution ==
    [status |-> "pending", error |-> "none",
     node_executions |-> [n \in NodeSet |->
         [status |-> "waiting", error |-> "none", output_data |-> "unset"]],
     pc |-> "created", fan |-> FanReady,
     execution_order |-> <<>>, i |-> 0, exc |-> "none", escaped |-> "none",
     raised |-> {}, req |-> 0, unannounced |-> "instance",
     logtask |-> FanNone]

\* self.workflows: the ids of the workflows that are loaded, and the ids the
\* clients ask for.
workflows == {"wf"}
WorkflowIds == {"wf", "absent"}

\* Variant of Loaded in which every id is taken for a loaded workflow.
LoadedAny(w) == TRUE

\* workflow = self.workflows.get(workflow_id); `if not workflow` is its negation
Loaded(w) == w \in workflows

\* An id that is not loaded raises ValueError("Workflow ... not found").
\* Else the instance is made and registered, and _notify_execution_update
\* called.
ExecuteWorkflow ==
    \E w \in WorkflowIds :
    /\ cur = 0
    /\ NoTaskReady
    /\ Len(requests) < budget
    /\ IF ~Loaded(w)
       THEN /\ requests' = Append(requests,
                    [workflow_id |-> w, result |-> "ValueError", id |-> 0])
            /\ UNCHANGED <<executions, cur>>
       ELSE /\ requests' = Append(requests,
                    [workflow_id |-> w, result |-> "pending", id |-> 0])
            /\ executions' = Append(executions,
                    [NewExecution EXCEPT !.req = Len(requests) + 1])
            /\ cur' = Len(executions) + 1
    /\ UNCHANGED <<callVars, budget, nodes, edges, planVars, continueOnError, subscriptions>>

\* After the notification: create_task(_run_workflow) and the id is returned;
\* if the notification raised, execute_workflow raises and no task is made.
ExecuteWorkflowReturn ==
    \E e \in Ids :
    /\ cur = e
    /\ executions[e].pc = "created"
    /\ executions[e].fan.st \in {"none", "raised"}
    /\ executions' = [executions EXCEPT
          ![e].pc = IF executions[e].fan.st = "none" THEN "start" ELSE "norun",
          ![e].fan = FanNone]
    /\ requests' = [requests EXCEPT ![executions[e].req] =
          IF executions[e].fan.st = "none"
          THEN [@ EXCEPT !.result = "returned", !.id = e]
          ELSE [@ EXCEPT !.result = "RuntimeError"]]
    /\ cur' = 0
    /\ UNCHANGED <<callVars, budget, nodes, edges, planVars, continueOnError, subscriptions>>

\* ------------------------------------------- WorkflowEngine._run_workflow
\* The task starts: execution.status = RUNNING, _notify_execution_update.
RunStart ==
    \E e \in Ids :
    /\ cur = 0
    /\ executions[e].pc = "start"
    /\ executions' = [executions EXCEPT ![e].status = "running",
                                        ![e].unannounced = "instance",
                                        ![e].pc = "started", ![e].fan = FanReady]
    /\ cur' = e
    /\ UNCHANGED <<callVars, budget, requests, nodes, edges, planVars, continueOnError, subscriptions>>

\* Variant of Store in which the instances of the registry hold the same
\* node records: what is written through one is seen in all.
StoreShared(e, r) ==
    [x \in DOMAIN executions |->
        IF x = e THEN r
        ELSE [executions[x] EXCEPT !.node_executions = r.node_executions]]

\* The registry after the run task of instance e has written r through its
\* references execution and node_execution: each instance has node records
\* of its own (NodeExecution(...) is made anew for every node of every call).
Store(e, r) == [executions EXCEPT ![e] = r]

\* Variant of Advance in which the loop stays at the node it has just run.
Stay(i) == i

\* `for node_id in execution_order` takes the next node.
Advance(i) == i + 1

\* except Exception as e: status = FAILED, error = str(e), _add_log(...)
OuterExcept(r, msg) ==
    [r EXCEPT !.status = "failed", !.error = msg, !.exc = "none",
              !.unannounced = "instance", !.pc = "fail_log", !.fan = FanReady]

\* except Exception as e (of one node): status = FAILED, error = str(e),
\* _add_log(...); e stays the exception in flight.
NodeExcept(r, n, msg) ==
    [r EXCEPT !.node_executions[n].status = "failed",
              !.node_executions[n].error = msg,
              !.unannounced = NodeMarked(@),
              !.exc = msg, !.pc = "node_log", !.fan = FanReady]

\* execution_order = self._get_execution_order(workflow) is entered.
PlanBegin ==
    \E e \in Ids :
    /\ cur = e
    /\ executions[e].pc = "started"
    /\ executions[e].fan.st \in {"none", "raised"}
    /\ IF executions[e].fan.st = "raised"
       THEN /\ executions' = [executions EXCEPT ![e] = OuterExcept(@, "RuntimeError")]
            /\ UNCHANGED dfs
       ELSE /\ executions' = [executions EXCEPT ![e].pc = "planning", ![e].fan = FanNone]
            /\ dfs' = [DfsIdle EXCEPT !.st = "build"]
    /\ UNCHANGED <<callVars, budget, requests, nodes, edges, vd, gb, continueOnError, subscriptions, cur>>

\* _get_execution_order has returned the order, or raised KeyError.
PlanEnd ==
    \E e \in Ids :
    /\ cur = e
    /\ executions[e].pc = "planning"
    /\ dfs.st \in {"done", "error"}
    /\ executions' = [executions EXCEPT ![e] =
          IF dfs.st = "error" THEN OuterExcept(@, "KeyError")
          ELSE [@ EXCEPT !.execution_order = dfs.order, !.i = 1, !.pc = "loop"]]
    /\ dfs' = DfsIdle
    /\ UNCHANGED <<callVars, budget, requests, nodes, edges, vd, gb, continueOnError, subscriptions, cur>>

\* _collect_input_data raises TypeError when the output of an upstream node
\* is no mapping (`handle in source_output`, input_data.update(source_output)).
InputRaises(r, n) ==
    \E s \in Deps(n) \cap NodeSet : r.node_executions[s].output_data = "null"

\* The head of `for node_id in execution_order`: after the last node the
\* status becomes SUCCESS; else the node's input is collected and the node is
\* marked RUNNING and announced.
LoopNext ==
    \E e \in Ids :
    /\ cur = e
    /\ executions[e].pc = "loop"
    /\ LET r == executions[e]
       IN executions' = Store(e,
            IF r.i > Len(r.execution_order)
            THEN [r EXCEPT !.status = "success", !.unannounced = "instance",
                           !.pc = "final", !.fan = FanReady]
            ELSE LET n == r.execution_order[r.i]
                 IN IF InputRaises(r, n)
                    THEN NodeExcept(r, n, "TypeError")
                    ELSE [r EXCEPT !.node_executions[n].status = "running",
                                   !.unannounced = NodeMarked(@),
                                   !.pc = "node_running", !.fan = FanReady])
    /\ UNCHANGED <<callVars, budget, requests, nodes, edges, planVars, continueOnError, subscriptions, cur>>

\* await self.executor.execute_node(...): the task waits for the executor.
ExecCall ==
    \E e \in Ids :
    /\ cur = e
    /\ executions[e].pc = "node_running"
    /\ executions[e].fan.st \in {"none", "raised"}
    /\ LET r == executions[e]
           n == r.execution_order[r.i]
       IN IF r.fan.st = "raised"
          THEN /\ executions' = Store(e, NodeExcept(r, n, "RuntimeError"))
               /\ UNCHANGED cur
          ELSE /\ executions' = [executions EXCEPT ![e].pc = "executing", ![e].fan = FanNone]
               /\ cur' = 0
    /\ UNCHANGED <<callVars, budget, requests, nodes, edges, planVars, continueOnError, subscriptions>>

\* While it runs, the executor calls the log callback it was given:
\* asyncio.create_task(self._add_node_log(execution, node_id, log)).
ExecLog ==
    \E e \in Ids :
    /\ cur = 0
    /\ executions[e].pc = "executing"
    /\ executions[e].logtask.st = "none"
    /\ executions' = [executions EXCEPT ![e].logtask = FanReady]
    /\ UNCHANGED <<callVars, budget, requests, nodes, edges, planVars, continueOnError, subscriptions, cur>>

\* The task of _add_node_log runs: the log is appended to the node's logs
\* and _notify_log starts its loop over the subscribers; the first send
\* suspends the task.
LogTaskStart ==
    \E e \in Ids :
    /\ cur = 0
    /\ executions[e].logtask.st = "ready"
    /\ executions' = [executions EXCEPT ![e].logtask =
          IF subscriptions = {} THEN [FanNone EXCEPT !.st = "done"]
          ELSE [st |-> "sending", used |-> Cardinality(subscriptions),
                pos |-> First(subscriptions)]]
    /\ UNCHANGED <<callVars, budget, requests, nodes, edges, planVars, continueOnError, subscriptions, cur>>

\* A send of the log task has returned and its set iterator is asked for
\* the next client (as in FanResume); the task ends when the loop ends or
\* raises.
LogTaskResume ==
    \E e \in Ids :
    /\ cur = 0
    /\ NoTaskReady
    /\ executions[e].logtask.st = "sending"
    /\ LET t == executions[e].logtask
       IN executions' = [executions EXCEPT ![e].logtask =
            IF Cardinality(subscriptions) /= t.used THEN FanRaised
            ELSE IF Ahead(t.pos) = {} THEN [FanNone EXCEPT !.st = "done"]
            ELSE [t EXCEPT !.pos = First(Ahead(t.pos))]]
    /\ UNCHANGED <<callVars, budget, requests, nodes, edges, planVars, continueOnError, subscriptions, cur>>

\* What execute_node may return: a mapping, or a value that is none.
ExecutorOutputs == {"dict", "null"}

\* The executor returns: the output is stored and the node marked SUCCESS.
ExecReturn ==
    \E e \in Ids :
    /\ cur = 0
    /\ executions[e].pc = "executing"
    /\ LET r == executions[e]
           n == r.execution_order[r.i]
       IN \E out \in ExecutorOutputs :
            executions' = Store(e,
                [r EXCEPT !.node_executions[n].output_data = out,
                          !.node_executions[n].status = "success",
                          !.unannounced = NodeMarked(@),
                          !.exc = "none", !.pc = "node_finally", !.fan = FanReady])
    /\ cur' = e
    /\ UNCHANGED <<callVars, budget, requests, nodes, edges, planVars, continueOnError, subscriptions>>

\* The executor raises.
ExecRaise ==
    \E e \in Ids :
    /\ cur = 0
    /\ executions[e].pc = "executing"
    /\ LET r == executions[e]
           n == r.execution_order[r.i]
       IN executions' = Store(e,
            [NodeExcept(r, n, "ExecutorError") EXCEPT !.raised = @ \cup {n}])
    /\ cur' = e
    /\ UNCHANGED <<callVars, budget, requests, nodes, edges, planVars, continueOnError, subscriptions>>

\* Variant of AbortOnError in which a node failure is never raised again.
AbortNever == FALSE

\* Variant of AbortOnError in which a node failure is always raised again.
AbortAlways == TRUE

\* if not workflow.settings.get("continueOnError", False): raise
AbortOnError == ~continueOnError

\* After the node's error log: the exception is raised again or dropped; an
\* exception of the log itself takes its place.  Then the finally clause.
NodeLogged ==
    \E e \in Ids :
    /\ cur = e
    /\ executions[e].pc = "node_log"
    /\ executions[e].fan.st \in {"none", "raised"}
    /\ LET r == executions[e]
       IN executions' = [executions EXCEPT ![e] =
            [r EXCEPT !.exc = IF r.fan.st = "raised" THEN "RuntimeError"
                              ELSE IF AbortOnError THEN r.exc ELSE "none",
                      !.pc = "node_finally", !.fan = FanReady]]
    /\ UNCHANGED <<callVars, budget, requests, nodes, edges, planVars, continueOnError, subscriptions, cur>>

\* After the finally clause's _notify_node_update: an exception in flight
\* leaves the loop, else the loop goes to the next node.
NodeFinally ==
    \E e \in Ids :
    /\ cur = e
    /\ executions[e].pc = "node_finally"
    /\ executions[e].fan.st \in {"none", "raised"}
    /\ LET r == executions[e]
       IN executions' = [executions EXCEPT ![e] =
            IF r.fan.st = "raised" THEN OuterExcept(r, "RuntimeError")
            ELSE IF r.exc /= "none" THEN OuterExcept(r, r.exc)
            ELSE [r EXCEPT !.i = Advance(@), !.pc = "loop", !.fan = FanNone]]
    /\ UNCHANGED <<callVars, budget, requests, nodes, edges, planVars, continueOnError, subscriptions, cur>>

\* After the failure log of the run: the outer finally clause.
FailLogged ==
    \E e \in Ids :
    /\ cur = e
    /\ executions[e].pc = "fail_log"
    /\ executions[e].fan.st \in {"none", "raised"}
    /\ LET r == executions[e]
       IN executions' = [executions EXCEPT ![e] =
            [r EXCEPT !.exc = IF r.fan.st = "raised" THEN "RuntimeError" ELSE "none",
                      !.pc = "final", !.fan = FanReady]]
    /\ UNCHANGED <<callVars, budget, requests, nodes, edges, planVars, continueOnError, subscriptions, cur>>

\* After the last _notify_execution_update the task ends; escaped is the
\* exception that leaves it.
RunEnd ==
    \E e \in Ids :
    /\ cur = e
    /\ executions[e].pc = "final"
    /\ executions[e].fan.st \in {"none", "raised"}
    /\ LET r == executions[e]
       IN executions' = [executions EXCEPT ![e] =
            [r EXCEPT !.escaped = IF r.fan.st = "raised" THEN "RuntimeError" ELSE r.exc,
                      !.exc = "none", !.pc = "done", !.fan = FanNone]]
    /\ cur' = 0
    /\ UNCHANGED <<callVars, budget, requests, nodes, edges, planVars, continueOnError, subscriptions>>

\* ------------------------------------------ WorkflowEngine.stop_execution
\* if execution and execution.status == RUNNING: status = CANCELLED
\* (the run task is not cancelled).
StopExecution ==
    \E e \in Ids :
    /\ cur = 0
    /\ NoTaskReady
    /\ executions[e].status = "running"
    /\ executions' = [executions EXCEPT ![e].status = "cancelled",
                                        ![e].unannounced = "instance"]
    /\ UNCHANGED <<callVars, budget, requests, nodes, edges, planVars, continueOnError, subscriptions, cur>>

\* ------------------------------------------------------------- the engine
Init ==
    /\ nodes = [i \in 1..RunNodes |-> i]
    /\ edges \in Graphs(RunNodes, RunEdges)
    /\ dfs = DfsIdle
    /\ vd = VdIdle
    /\ gb = GbIdle
    /\ continueOnError \in BOOLEAN
    /\ subscriptions = {}
    /\ executions = <<>>
    /\ cur = 0
    /\ budget = 1
    /\ requests = <<>>
    /\ CallsIdle

Next ==
    \/ ExecuteWorkflow
    \/ FanStart
    \/ FanResume
    \/ ExecuteWorkflowReturn
    \/ RunStart
    \/ PlanBegin
    \/ PlanEnd
    \/ LoopNext
    \/ ExecCall
    \/ ExecReturn
    \/ ExecRaise
    \/ NodeLogged
    \/ NodeFinally
    \/ FailLogged
    \/ RunEnd
    \/ StopExecution
    \/ OrderBuild \/ OrderOuter \/ OrderIter \/ OrderAppend
    \/ SubscribeClient
    \/ UnsubscribeClient

Spec == Init /\ [][Next]_vars

\* ------------------------------------------------ the executor's log task
\* One run, as in Spec, whose executors call the log callback.
LogInit ==
    /\ nodes = [i \in 1..RunNodes |-> i]
    /\ edges \in Graphs(RunNodes, RunEdges)
    /\ dfs = DfsIdle
    /\ vd = VdIdle
    /\ gb = GbIdle
    /\ continueOnError \in BOOLEAN
    /\ subscriptions = {}
    /\ executions = <<>>
    /\ cur = 0
    /\ budget = 1
    /\ requests = <<>>
    /\ CallsIdle

LogNext ==
    \/ Next
    \/ ExecLog
    \/ LogTaskStart
    \/ LogTaskResume

LogSpec == LogInit /\ [][LogNext]_vars

\* ------------------------------------------- several calls, no subscribers
\* execute_workflow is called up to MaxCalls times, for loaded and for absent
\* ids, and the runs go on side by side; no client subscribes.
CallInit ==
    /\ nodes = [i \in 1..CallNodes |-> i]
    /\ edges \in Graphs(CallNodes, RunEdges)
    /\ dfs = DfsIdle
    /\ vd = VdIdle
    /\ gb = GbIdle
    /\ continueOnError \in BOOLEAN
    /\ subscriptions = {}
    /\ executions = <<>>
    /\ cur = 0
    /\ budget = MaxCalls
    /\ requests = <<>>
    /\ CallsIdle

CallNext ==
    \/ ExecuteWorkflow
    \/ FanStart
    \/ ExecuteWorkflowReturn
    \/ RunStart
    \/ PlanBegin
    \/ PlanEnd
    \/ LoopNext
    \/ ExecCall
    \/ ExecReturn
    \/ ExecRaise
    \/ NodeLogged
    \/ NodeFinally
    \/ FailLogged
    \/ RunEnd
    \/ StopExecution
    \/ OrderBuild \/ OrderOuter \/ OrderIter \/ OrderAppend

CallSpec == CallInit /\ [][CallNext]_vars

\* ------------------------------------ WorkflowEngine._collect_input_data
\* The keys of the nodes' outputs, and the port ids of an edge ("none": the
\* edge has no sourceHandle / targetHandle).
Keys == {"a", "b", "_context"}
Handles == {"none", "a", "b"}

\* execution.context, and the output of node s that has the keys K: the
\* value under key k is named after its origin.
Context == <<0, "context">>
OutputOf(s, K) == [k \in K |-> <<s, k>>]

\* The edges of the workflow: into the node whose input is collected, or
\* into another node.
InEdges == [source : 1..MaxSources, target : {"node", "other"},
            sourceHandle : Handles, targetHandle : Handles]
EdgeLists == UNION {[1..k -> InEdges] : k \in 0..MaxInEdges}

\* node_outputs: the outputs of the upstream nodes that have completed.
NodeOutputs ==
    UNION {{[s \in S |-> OutputOf(s, ks[s])] : ks \in [S -> SUBSET Keys]} :
           S \in SUBSET (1..MaxSources)}

EmptyDict == [k \in {} |-> Context]

\* d.update(u) and d[k] = v
DictUpdate(d, u) ==
    [k \in DOMAIN d \cup DOMAIN u |-> IF k \in DOMAIN u THEN u[k] ELSE d[k]]
DictSet(d, k, v) == [j \in DOMAIN d \cup {k} |-> IF j = k THEN v ELSE d[j]]

\* for edge in workflow.edges: ... from the i-th edge on; acc is input_data.
RECURSIVE CollectEdges(_, _, _, _)
CollectEdges(es, outs, i, acc) ==
    IF i > Len(es) THEN acc
    ELSE LET edge == es[i]
             source_output == IF edge.source \in DOMAIN outs
                              THEN outs[edge.source] ELSE EmptyDict
             step ==
                IF edge.target /= "node" THEN acc
                ELSE IF edge.sourceHandle /= "none" /\ edge.targetHandle /= "none"
                     THEN IF edge.sourceHandle \in DOMAIN source_output
                          THEN DictSet(acc, edge.targetHandle,
                                       source_output[edge.sourceHandle])
                          ELSE acc
                     ELSE DictUpdate(acc, source_output)
         IN CollectEdges(es, outs, i + 1, step)

\* _collect_input_data(node, workflow, node_outputs, context)
CollectInputData(es, outs, context) ==
    DictSet(CollectEdges(es, outs, 1, EmptyDict), "_context", context)

CollectInput ==
    /\ collect.st = "called"
    /\ collect' = [collect EXCEPT !.st = "returned",
          !.input_data = CollectInputData(collect.edges, collect.node_outputs, Context)]
    /\ UNCHANGED <<runVars, dispatch, iso, parse, ws, sched, flow, wsm>>

\* The engine and the planners at rest, with no workflow loaded: the state
\* in which a call outside the engine is followed.
RunIdle ==
    /\ nodes = <<>>
    /\ edges = {}
    /\ dfs = DfsIdle
    /\ vd = VdIdle
    /\ gb = GbIdle
    /\ continueOnError = FALSE
    /\ subscriptions = {}
    /\ executions = <<>>
    /\ cur = 0
    /\ budget = 0
    /\ requests = <<>>

InputInit ==
    /\ collect \in [st : {"called"}, edges : EdgeLists, node_outputs : NodeOutputs,
                    input_data : {EmptyDict}]
    /\ dispatch = DispatchIdle
    /\ iso = IsoIdle
    /\ parse = ParseIdle
    /\ ws = WsIdle
    /\ sched = SchedIdle
    /\ flow = FlowIdle
    /\ wsm = WsmIdle
    /\ RunIdle

InputNext == CollectInput

InputSpec == InputInit /\ [][InputNext]_vars

\* ------------------------------------------------------------ graph facts
RECURSIVE ReachFrom(_, _)
ReachFrom(S, k) ==
    IF k = 0 THEN S
    ELSE ReachFrom(S \cup {e[2] : e \in {d \in edges : d[1] \in S}}, k - 1)

\* n lies on a dependency cycle.
OnCycle(n) == n \in ReachFrom({e[2] : e \in {d \in edges : d[1] = n}}, Cardinality(edges))

Cyclic == \E n \in NodeSet : OnCycle(n)

WellFormed == \A e \in edges : e[1] \in NodeSet /\ e[2] \in NodeSet

Pos(seq, x) == CHOOSE i \in 1..Len(seq) : seq[i] = x

\* C1: for an acyclic graph whose edges name existing nodes, the order
\* _get_execution_order returns holds every node exactly once, and the source
\* of every edge stands before its target.
C1_TopologicalOrder ==
    (dfs.st = "done" /\ WellFormed /\ ~Cyclic) =>
        /\ Len(dfs.order) = Len(nodes)
        /\ \A n \in NodeSet : \E i \in 1..Len(dfs.order) : dfs.order[i] = n
        /\ \A e \in edges : Pos(dfs.order, e[1]) < Pos(dfs.order, e[2])

C1_Witness ==
    /\ dfs.st = "done" /\ WellFormed /\ ~Cyclic
    /\ Cardinality(edges) = PlanEdges
    /\ \E e \in edges : e[1] > e[2]

\* --------------------------------------------------------- the flow walks
PlanDone == dfs.st \in {"done", "error"} /\ vd.st = "done" /\ gb.st = "returned"

\* C3: plan construction ends on every finite graph, cyclic ones included:
\* the walk of _get_execution_order, the walk of validate_dependencies and
\* the loop of group_by_dependencies each come to their end.
C3_PlanTerminates == <>PlanDone

C3_Witness == PlanDone /\ dfs.st = "done" /\ Cyclic /\ Cardinality(gb.completed) < Len(vd.validated)

\* The groups (their indices) that hold the entry of node id.
GroupsOf(id) == {g \in 1..Len(gb.groups) : id \in IdsOf(gb.groups[g])}

\* C4: in the grouping group_by_dependencies returns, every plan entry is in
\* exactly one group and each of its dependencies in a strictly earlier one.
C4_EveryEntryGroupedOnce ==
    gb.st = "returned" =>
        \A i \in 1..Len(vd.validated) :
            LET item == vd.validated[i]
            IN /\ Cardinality(GroupsOf(item.nodeId)) = 1
               /\ \A d \in item.dependencies :
                    \E g \in GroupsOf(d) : \A h \in GroupsOf(item.nodeId) : g < h

\* C5: when the frontier is empty while entries remain unscheduled, the
\* grouping is not returned without them (the condition is an error).
C5_NoSilentTruncation ==
    gb.st = "returned" => Cardinality(gb.completed) >= Len(vd.validated)

\* -------------------------------------------------------- the run's claims
NodeStatus(e, n) == executions[e].node_executions[n].status

\* C2: a run of a workflow with a dependency cycle ends Failed with a
\* CycleDetected error, and none of its nodes ever leaves Waiting.
C2_CycleFailsRun ==
    Cyclic =>
        \A e \in Ids :
            /\ \A n \in NodeSet : NodeStatus(e, n) = "waiting"
            /\ executions[e].pc = "done" =>
                   executions[e].status = "failed" /\ executions[e].error = "CycleDetected"

\* C6: once stop_execution has made a Running instance Cancelled, it stays
\* Cancelled, and no node that is Waiting is started.
C6_StopCancelsRun ==
    [][\A e \in Ids :
         executions[e].status = "cancelled" =>
            /\ executions'[e].status = "cancelled"
            /\ \A n \in NodeSet :
                 NodeStatus(e, n) = "waiting" =>
                    executions'[e].node_executions[n].status \in {"waiting", "skipped"}]_vars

TerminalStatus == {"success", "failed", "cancelled", "timeout"}

\* C7: an instance's status only moves Pending -> Running -> a terminal
\* status, and a terminal status is never changed.
C7_InstanceStateMachine ==
    [][\A e \in Ids :
         LET old == executions[e].status
             new == executions'[e].status
         IN \/ new = old
            \/ old = "pending" /\ new = "running"
            \/ old = "running" /\ new \in TerminalStatus]_vars

\* C8: a node's status only moves Waiting -> Running -> Success, Failed or
\* Skipped, and a terminal status is never changed.
C8_NodeStateMachine ==
    [][\A e \in Ids : \A n \in NodeSet :
         LET old == NodeStatus(e, n)
             new == executions'[e].node_executions[n].status
         IN \/ new = old
            \/ old = "waiting" /\ new = "running"
            \/ old = "running" /\ new \in {"success", "failed", "skipped"}]_vars

\* C9: a node whose executor raised is Failed with the error's message on its
\* record; under the default policy every node later in the plan stays
\* Waiting (or Skipped) and the instance ends Failed.
C9_ExecutorErrorAborts ==
    \A e \in Ids : \A n \in executions[e].raised :
        LET r == executions[e]
        IN /\ r.node_executions[n].status = "failed"
           /\ r.node_executions[n].error = "ExecutorError"
           /\ ~continueOnError =>
                /\ \A k \in (Pos(r.execution_order, n) + 1)..Len(r.execution_order) :
                      NodeStatus(e, r.execution_order[k]) \in {"waiting", "skipped"}
                /\ r.pc = "done" => r.status = "failed"

C9_Witness ==
    /\ ~continueOnError
    /\ \E e \in Ids : \E n \in executions[e].raised :
          /\ executions[e].pc = "done"
          /\ Pos(executions[e].execution_order, n) < Len(executions[e].execution_order)

\* C10: under the default policy a run that has ended is Success if and only
\* if every node record of the instance is Success.
C10_SuccessIffAllNodesSucceed ==
    ~continueOnError =>
        \A e \in Ids :
            executions[e].pc = "done" =>
                (executions[e].status = "success"
                    <=> \A n \in NodeSet : NodeStatus(e, n) = "success")

\* ------------------------------------------------- the failure policies
\* The messages of the errors that no node's executor or input raised: a
\* fan-out that failed, a plan that could not be built.
LoopLevelErrors == {"RuntimeError", "KeyError"}

\* C11: a run that has ended, in which an executor raised and no loop-level
\* error occurred, is Success under continueOnError and Failed under the
\* default policy; the node whose executor raised is Failed with its error.
C11_ContinueOnErrorPolicy ==
    \A e \in Ids :
        LET r == executions[e]
        IN (r.pc = "done" /\ r.raised /= {} /\ r.error \notin LoopLevelErrors) =>
              /\ \A n \in r.raised :
                    /\ r.node_executions[n].status = "failed"
                    /\ r.node_executions[n].error = "ExecutorError"
              /\ r.status = IF continueOnError THEN "success" ELSE "failed"

C11_Witness ==
    /\ continueOnError
    /\ \E e \in Ids :
          /\ executions[e].pc = "done"
          /\ executions[e].status = "success"
          /\ executions[e].raised /= {}
          /\ \E n \in NodeSet : NodeStatus(e, n) = "success"

\* Node m depends on node n, directly or through other nodes.
DependsOn(m, n) == m /= n /\ m \in ReachFrom({n}, Cardinality(edges))

\* C12: under continueOnError a node that depends, directly or transitively,
\* on a Failed node is not started and not marked Success.
C12_FailedUpstreamBlocks ==
    [][continueOnError =>
         \A e \in Ids : \A m \in NodeSet :
            (\E n \in NodeSet : DependsOn(m, n) /\ NodeStatus(e, n) = "failed") =>
               LET old == NodeStatus(e, m)
                   new == executions'[e].node_executions[m].status
               IN /\ ~(old = "waiting" /\ new = "running")
                  /\ ~(old /= "success" /\ new = "success")]_vars

\* ------------------------------------------------------ execute_workflow
\* C13: a call of execute_workflow for an id that is not loaded fails with
\* the not-found error and changes nothing: no instance is made or
\* registered, no event is sent, no task is started.
C13_UnknownWorkflowRejected ==
    [][(/\ Len(requests') > Len(requests)
        /\ requests'[Len(requests')].workflow_id \notin workflows) =>
          /\ requests'[Len(requests')].result = "ValueError"
          /\ UNCHANGED <<executions, subscriptions, cur>>]_vars

C13_Witness ==
    /\ Len(requests) = 2
    /\ requests[1].workflow_id \in workflows
    /\ requests[2].workflow_id \notin workflows
    /\ requests[2].result = "ValueError"
    /\ Len(executions) = 1

\* C14: execute_workflow on a loaded workflow registers an instance that is
\* Pending with one Waiting record for every node, and the call returns the
\* instance's id (it does not raise) while no node has yet been marked
\* Running.
C14_StartReturnsId ==
    \A e \in Ids :
        LET r == executions[e]
            q == requests[r.req]
        IN /\ q.workflow_id \in workflows
           /\ DOMAIN r.node_executions = NodeSet
           /\ q.result \in {"pending", "returned"}
           /\ q.result = "pending" =>
                 /\ r.status = "pending"
                 /\ \A n \in NodeSet : NodeStatus(e, n) = "waiting"
           /\ q.result = "returned" => q.id = e

C16_OneEventPerTransition ==
    [][\A e \in Ids :
          /\ (\/ executions'[e].status /= executions[e].status
              \/ \E n \in NodeSet :
                    executions'[e].node_executions[n].status /= NodeStatus(e, n))
                => executions[e].unannounced = "none"
          /\ executions'[e].pc = "done" => executions'[e].unannounced = "none"]_vars

\* The run task of instance e is in a send of its last execution_update,
\* the event of the terminal status.
Closing(e) == executions[e].pc = "final" /\ executions[e].fan.st = "sending"

\* C17: the event that announces an instance's terminal status is the last
\* event sent for the instance: once a send of the last execution_update has
\* been made, the log task of the instance sends nothing.
C17_TerminalEventLast ==
    [][\A e \in Ids :
          Closing(e) =>
             ~(/\ executions'[e].logtask /= executions[e].logtask
               /\ executions'[e].logtask.st = "sending")]_vars

\* ------------------------------------------------------- the node records
\* C18: a node record that is Success or Failed is never changed again: its
\* status, its output and its error stay what they are in every later step,
\* also after the run has ended.
C18_TerminalNodeFrozen ==
    [][\A e \in Ids : \A n \in NodeSet :
          NodeStatus(e, n) \in {"success", "failed"} =>
             executions'[e].node_executions[n] = executions[e].node_executions[n]]_vars

C18_Witness ==
    \E e \in Ids :
        /\ executions[e].pc = "done"
        /\ executions[e].status = "failed"
        /\ \E n \in NodeSet : NodeStatus(e, n) = "success" /\
              executions[e].node_executions[n].output_data = "dict"
        /\ \E n \in NodeSet : NodeStatus(e, n) = "failed"

\* --------------------------------------------------------- the node input
\* The edges into the node from an upstream node that has completed.
Incoming ==
    {collect.edges[i] : i \in {j \in 1..Len(collect.edges) :
        /\ collect.edges[j].target = "node"
        /\ collect.edges[j].source \in DOMAIN collect.node_outputs}}

\* C19: the resolved input is the merge over the incoming edges: an edge
\* that names a source port gives that port's value and nothing else of the
\* upstream output, an edge that names no port gives every key of it, and
\* _context is the instance's context whatever the upstream outputs hold.
C19_InputIsMerge ==
    collect.st = "returned" =>
        /\ collect.input_data["_context"] = Context
        /\ \A k \in DOMAIN collect.input_data \ {"_context"} :
              LET v == collect.input_data[k]
              IN \E edge \in Incoming :
                    /\ v[1] = edge.source
                    /\ v[2] = IF edge.sourceHandle = "none" THEN k ELSE edge.sourceHandle
        /\ \A edge \in Incoming :
              edge.sourceHandle = "none" =>
                 DOMAIN collect.node_outputs[edge.source] \subseteq DOMAIN collect.input_data

\* ------------------------------------------------- plans that cannot be built
\* C20: when an edge names an id that is no node, the plan cannot be built
\* and no node runs: every node record stays Waiting without an error, and
\* the run that has ended is Failed with an error of the instance.
C20_PlanFailureBeforeNodes ==
    ~WellFormed =>
        \A e \in Ids :
            /\ \A n \in NodeSet :
                  /\ NodeStatus(e, n) = "waiting"
                  /\ executions[e].node_executions[n].error = "none"
            /\ executions[e].pc = "done" =>
                  executions[e].status = "failed" /\ executions[e].error /= "none"

C20_Witness ==
    /\ \E d \in edges : d[1] \notin NodeSet /\ d[2] \in NodeSet
    /\ \E e \in Ids :
          /\ executions[e].pc = "done"
          /\ executions[e].status = "failed"
          /\ executions[e].error = "KeyError"

\* --------------------------------------------------------------- C21 --
\* C21: no exception leaves the run task: whenever _run_workflow has ended,
\* no exception has escaped it and the instance status is terminal, also
\* when the failure log or the final event raised.
C21_NoExceptionEscapes ==
    \A e \in Ids :
        executions[e].pc = "done"
            => /\ executions[e].escaped = "none"
               /\ executions[e].status \in {"success", "failed", "cancelled"}

\* ------------------------------------------- dispatch of a node by its type
\* The type tags a node may carry ("mystery": one that no table knows), and
\* "absent" for an executionList item that has no 'type' key.
TypeTags == {"worker", "supervisor", "planner", "watcher", "scheduler", "flow",
             "storage", "mystery"}
ItemTags == TypeTags \cup {"absent"}

\* NODE_TYPES of the package nodes; its keys are also the modules that
\* importlib.import_module(f'nodes.{node_type}') finds.
NODE_TYPES == {"worker", "supervisor", "planner", "watcher", "scheduler", "flow",
               "storage"}

\* The table `executors` of NodeExecutor.execute_node, and the tags that
\* execute_flow_node tests for.
executors == {"worker", "supervisor", "planner", "flow"}
FlowBranches == {"worker", "supervisor"}

\* The four places that dispatch on a type tag.
Paths == {"nodes.execute_node", "FlowNode.execute_single_node",
          "NodeExecutor.execute_node", "NodeExecutor.execute_flow_node"}

\* What the executor that is found may do: return its result, raise, or
\* raise an ImportError of its own.
ModuleOutcomes == {"returns", "raises", "raises ImportError"}

\* How a dispatch ends: an exception (exc: its class) or a returned mapping
\* (status: its "status" entry); error is the message either carries.
NoOutcome == [kind |-> "none", exc |-> "none", status |-> "none", error |-> "none"]
Raised(exc, msg) == [kind |-> "raise", exc |-> exc, status |-> "none", error |-> msg]
Returned(status, msg) == [kind |-> "return", exc |-> "none", status |-> status, error |-> msg]

\* nodes.execute_node: a tag that is not in NODE_TYPES raises ValueError;
\* else the module's execute is awaited and what it raises goes through.
NodesExecuteNode(t, o) ==
    IF t \notin NODE_TYPES THEN Raised("ValueError", "Unknown node type")
    ELSE IF o = "returns" THEN Returned("success", "none")
    ELSE IF o = "raises" THEN Raised("Exception", "executor error")
    ELSE Raised("ImportError", "executor error")

\* FlowNode.execute_single_node: import_module, getattr, await, all in one
\* try: `except ImportError` gives Exception("Unknown node type: ..."),
\* `except Exception` gives Exception("Error executing node ...").
ExecuteSingleNode(t, o) ==
    IF t \notin NODE_TYPES THEN Raised("Exception", "Unknown node type")
    ELSE IF o = "returns" THEN Returned("success", "none")
    ELSE IF o = "raises" THEN Raised("Exception", "Error executing node")
    ELSE Raised("Exception", "Unknown node type")

\* The execute_*_node methods of NodeExecutor catch every exception and
\* return {"status": "error", "error": str(e)}.
ExecuteMethod(o) ==
    IF o = "returns" THEN Returned("success", "none")
    ELSE Returned("error", "executor error")

\* NodeExecutor.execute_node: executors.get(node_type); without an executor
\* {"status": "error", "error": "Unknown node type: ..."} is returned.
ExecuteNode(t, o) ==
    IF t \in executors THEN ExecuteMethod(o)
    ELSE Returned("error", "Unknown node type")

\* One item of execute_flow_node: node_type = item.get('type', 'worker');
\* worker and supervisor are executed, any other tag gives
\* {"status": "skipped", "reason": "Unknown node type"}.
FlowItemType(t) == IF t = "absent" THEN "worker" ELSE t
FlowItemResult(t, o) ==
    IF FlowItemType(t) \in FlowBranches THEN ExecuteMethod(o)
    ELSE Returned("skipped", "none")

\* The tags a path has an executor for.
Registered(p) ==
    IF p = "NodeExecutor.execute_node" THEN executors
    ELSE IF p = "NodeExecutor.execute_flow_node" THEN FlowBranches
    ELSE NODE_TYPES

\* The lists of at most n item tags.
RECURSIVE TagLists(_)
TagLists(n) ==
    IF n = 0 THEN {<<>>}
    ELSE LET S == TagLists(n - 1)
         IN S \cup {Append(l, t) : l \in {x \in S : Len(x) = n - 1}, t \in ItemTags}

\* A dispatch of one node on one of the first three paths.
DispatchNode ==
    /\ dispatch.st = "called"
    /\ dispatch.path /= "NodeExecutor.execute_flow_node"
    /\ \E o \in ModuleOutcomes :
         LET t == dispatch.types[1]
         IN dispatch' = [dispatch EXCEPT !.st = "returned", !.out =
              IF dispatch.path = "nodes.execute_node" THEN NodesExecuteNode(t, o)
              ELSE IF dispatch.path = "FlowNode.execute_single_node"
                   THEN ExecuteSingleNode(t, o)
              ELSE ExecuteNode(t, o)]
    /\ UNCHANGED <<runVars, collect, iso, parse, ws, sched, flow, wsm>>

\* execute_flow_node: `for item in execution_list` takes the next item and
\* appends its result to results.
FlowItem ==
    /\ dispatch.st = "called"
    /\ dispatch.path = "NodeExecutor.execute_flow_node"
    /\ dispatch.k <= Len(dispatch.types)
    /\ \E o \in ModuleOutcomes :
         dispatch' = [dispatch EXCEPT !.k = @ + 1, !.results =
              Append(@, FlowItemResult(dispatch.types[dispatch.k], o))]
    /\ UNCHANGED <<runVars, collect, iso, parse, ws, sched, flow, wsm>>

\* execute_flow_node: after the loop {"status": "success", "results": results}
\* is returned.
FlowReturn ==
    /\ dispatch.st = "called"
    /\ dispatch.path = "NodeExecutor.execute_flow_node"
    /\ dispatch.k > Len(dispatch.types)
    /\ dispatch' = [dispatch EXCEPT !.st = "returned",
                                    !.out = Returned("success", "none")]
    /\ UNCHANGED <<runVars, collect, iso, parse, ws, sched, flow, wsm>>

DispatchInit ==
    /\ dispatch \in [st : {"called"}, path : Paths, types : TagLists(MaxItems),
                     k : {1}, results : {<<>>}, out : {NoOutcome}]
    /\ dispatch.path /= "NodeExecutor.execute_flow_node"
          => Len(dispatch.types) = 1 /\ dispatch.types[1] \in TypeTags
    /\ collect = CollectIdle
    /\ iso = IsoIdle
    /\ parse = ParseIdle
    /\ ws = WsIdle
    /\ sched = SchedIdle
    /\ flow = FlowIdle
    /\ wsm = WsmIdle
    /\ RunIdle

DispatchNext == DispatchNode \/ FlowItem \/ FlowReturn

DispatchSpec == DispatchInit /\ [][DispatchNext]_vars

\* --------------------------------------------------------------- C22 --
\* An outcome that is a failure with the unknown-node-type error.
UnknownTypeError(out) ==
    /\ out.kind = "raise" \/ out.status = "error"
    /\ out.error = "Unknown node type"

\* C22: on every dispatch path a node whose type tag has no registered
\* executor fails with the unknown-node-type error: the dispatch of the
\* node itself, and in execute_flow_node the result of every such item.
C22_UnknownTypeFails ==
    /\ /\ dispatch.st = "returned"
       /\ dispatch.path /= "NodeExecutor.execute_flow_node"
       /\ dispatch.types[1] \notin Registered(dispatch.path)
       => UnknownTypeError(dispatch.out)
    /\ /\ dispatch.st /= "idle"
       /\ dispatch.path = "NodeExecutor.execute_flow_node"
       => \A j \in 1..Len(dispatch.results) :
             FlowItemType(dispatch.types[j]) \notin Registered(dispatch.path)
                => UnknownTypeError(dispatch.results[j])

\* ------------------------------------- PythonExecutor.execute_isolated
\* One isolated execution with the id execution_id, and the calls of
\* stop_execution(execution_id).  The executor runs on one event loop: each
\* action is the code of a task from one await to the next.
\*
\* iso.proc is the child process: "none" (not made), "running", "exited"
\* (the OS process has ended and the loop has not yet taken notice: a signal
\* is a no-op) and "closed" (the loop has taken notice: returncode is set,
\* the tasks that wait for the process are woken, and terminate() and
\* kill() raise ProcessLookupError).  iso.registered: execution_id is in
\* running_processes.  iso.ex is the place of execute_isolated, iso.result
\* what it returns.  History: iso.timeout is the state of the process when
\* the timeout fired, iso.sent the signals sent to the running process and
\* by whom.
Stops == 1..MaxStops

StopIdle == [pc |-> "idle", found |-> FALSE, ret |-> "none"]

IsoStart ==
    [st |-> "open", proc |-> "none", registered |-> FALSE, ex |-> "idle",
     result |-> "none", timeout |-> "none", sent |-> <<>>,
     stops |-> [s \in Stops |-> StopIdle]]

\* process.terminate() / process.kill() on a process that the loop still
\* holds: the signal is sent if the process runs.
Signal(i, sig, by) ==
    IF i.proc = "running"
    THEN [i EXCEPT !.sent = Append(@, [sig |-> sig, by |-> by])]
    ELSE i

\* terminate() and kill() raise ProcessLookupError.
Gone(i) == i.proc = "closed"

\* Variant of WaitDone in which a wait for the process returns at once.
WaitDoneEarly(i) == TRUE

\* await process.wait() and await process.communicate() go on when the loop
\* has taken notice of the end of the process.
WaitDone(i) == i.proc = "closed"

\* create_subprocess_exec(...) has returned; running_processes[id] = process,
\* and wait_for(process.communicate(), timeout) is awaited.
IsoSpawn ==
    /\ iso.st = "open"
    /\ iso.ex = "idle"
    /\ iso' = [iso EXCEPT !.proc = "running", !.registered = TRUE,
                          !.ex = "communicate"]
    /\ UNCHANGED <<runVars, collect, dispatch, parse, ws, sched, flow, wsm>>

\* The child process ends: its code has finished, or a signal has ended it.
ProcExit ==
    /\ iso.st = "open"
    /\ iso.proc = "running"
    /\ iso' = [iso EXCEPT !.proc = "exited"]
    /\ UNCHANGED <<runVars, collect, dispatch, parse, ws, sched, flow, wsm>>

\* The loop takes notice of the end of the process.
ProcClose ==
    /\ iso.st = "open"
    /\ iso.proc = "exited"
    /\ iso' = [iso EXCEPT !.proc = "closed"]
    /\ UNCHANGED <<runVars, collect, dispatch, parse, ws, sched, flow, wsm>>

\* communicate() has returned in time: the result is parsed, the finally
\* clause removes the id, the result is returned.
CommunicateReturn ==
    /\ iso.st = "open"
    /\ iso.ex = "communicate"
    /\ WaitDone(iso)
    /\ iso' = [iso EXCEPT !.ex = "returned", !.result = "parsed",
                          !.registered = FALSE]
    /\ UNCHANGED <<runVars, collect, dispatch, parse, ws, sched, flow, wsm>>

\* except asyncio.TimeoutError: process.kill(), then await process.wait().
\* A ProcessLookupError of kill() leaves execute_isolated through the
\* finally clause, which removes the id.
IsoTimeout ==
    /\ iso.st = "open"
    /\ iso.ex = "communicate"
    /\ LET i == [iso EXCEPT !.timeout = IF iso.proc = "running" THEN "alive"
                                        ELSE "ended"]
       IN iso' = IF Gone(i)
                 THEN [i EXCEPT !.ex = "raised", !.result = "ProcessLookupError",
                                !.registered = FALSE]
                 ELSE [Signal(i, "KILL", "timeout") EXCEPT !.ex = "kill_wait"]
    /\ UNCHANGED <<runVars, collect, dispatch, parse, ws, sched, flow, wsm>>

\* await process.wait() has returned: result = {"status": "timeout", ...,
\* "output": {}}, the finally clause removes the id, the result is returned.
KillWaitReturn ==
    /\ iso.st = "open"
    /\ iso.ex = "kill_wait"
    /\ WaitDone(iso)
    /\ iso' = [iso EXCEPT !.ex = "returned", !.result = "timeout",
                          !.registered = FALSE]
    /\ UNCHANGED <<runVars, collect, dispatch, parse, ws, sched, flow, wsm>>

\* The task that awaits execute_isolated is cancelled while it waits for the
\* process: CancelledError is no asyncio.TimeoutError, so only the finally
\* clause runs, which removes the id; nothing is sent to the process.
IsoCancel ==
    /\ iso.st = "open"
    /\ iso.ex \in {"communicate", "kill_wait"}
    /\ iso' = [iso EXCEPT !.ex = "cancelled", !.result = "CancelledError",
                          !.registered = FALSE]
    /\ UNCHANGED <<runVars, collect, dispatch, parse, ws, sched, flow, wsm>>

\* ------------------------------------- PythonExecutor.stop_execution
\* How stop_execution ends after the process has been waited for:
\* del running_processes[execution_id] and True, or False when the del
\* raises KeyError (except Exception: return False).
StopDelete(i, s) ==
    IF i.registered
    THEN [i EXCEPT !.registered = FALSE, !.stops[s].pc = "returned",
                   !.stops[s].ret = "True"]
    ELSE [i EXCEPT !.stops[s].pc = "returned", !.stops[s].ret = "False"]

\* stop_execution(execution_id) is called: an id that is not registered
\* returns False; else process.terminate() and
\* await wait_for(process.wait(), 5.0).  A ProcessLookupError of
\* terminate() is caught by `except Exception` and False is returned.
StopCall ==
    /\ iso.st = "open"
    /\ \E s \in Stops :
        /\ iso.stops[s].pc = "idle"
        /\ iso' =
            IF ~iso.registered
            THEN [iso EXCEPT !.stops[s].pc = "returned", !.stops[s].ret = "False"]
            ELSE IF Gone(iso)
            THEN [iso EXCEPT !.stops[s].pc = "returned", !.stops[s].ret = "False",
                             !.stops[s].found = TRUE]
            ELSE [Signal(iso, "TERM", "stop") EXCEPT
                             !.stops[s].pc = "wait_term", !.stops[s].found = TRUE]
    /\ UNCHANGED <<runVars, collect, dispatch, parse, ws, sched, flow, wsm>>

\* process.wait() has returned within the five seconds.
StopWaitReturn ==
    /\ iso.st = "open"
    /\ \E s \in Stops :
        /\ iso.stops[s].pc = "wait_term"
        /\ WaitDone(iso)
        /\ iso' = StopDelete(iso, s)
    /\ UNCHANGED <<runVars, collect, dispatch, parse, ws, sched, flow, wsm>>

\* The five seconds are over (asyncio.TimeoutError): process.kill(), then
\* await process.wait(); a ProcessLookupError of kill() returns False.
StopGrace ==
    /\ iso.st = "open"
    /\ \E s \in Stops :
        /\ iso.stops[s].pc = "wait_term"
        /\ iso' =
            IF Gone(iso)
            THEN [iso EXCEPT !.stops[s].pc = "returned", !.stops[s].ret = "False"]
            ELSE [Signal(iso, "KILL", "stop") EXCEPT !.stops[s].pc = "wait_kill"]
    /\ UNCHANGED <<runVars, collect, dispatch, parse, ws, sched, flow, wsm>>

\* The process.wait() that follows the kill has returned.
StopKillWaitReturn ==
    /\ iso.st = "open"
    /\ \E s \in Stops :
        /\ iso.stops[s].pc = "wait_kill"
        /\ WaitDone(iso)
        /\ iso' = StopDelete(iso, s)
    /\ UNCHANGED <<runVars, collect, dispatch, parse, ws, sched, flow, wsm>>

IsoInit ==
    /\ iso = IsoStart
    /\ collect = CollectIdle
    /\ dispatch = DispatchIdle
    /\ parse = ParseIdle
    /\ ws = WsIdle
    /\ sched = SchedIdle
    /\ flow = FlowIdle
    /\ wsm = WsmIdle
    /\ RunIdle

IsoNext ==
    \/ IsoSpawn
    \/ ProcExit
    \/ ProcClose
    \/ CommunicateReturn
    \/ IsoTimeout
    \/ KillWaitReturn
    \/ IsoCancel
    \/ StopCall
    \/ StopWaitReturn
    \/ StopGrace
    \/ StopKillWaitReturn

IsoSpec == IsoInit /\ [][IsoNext]_vars

\* --------------------------------------------------------------- C23 --
\* C23: when the timeout fires while the child process is running,
\* execute_isolated does not raise, and when it has returned the result is
\* the timeout result, the process has ended and the loop has taken notice
\* of it, and the id is not in running_processes.
C23_TimeoutAfterExit ==
    (iso.st = "open" /\ iso.timeout = "alive")
        => /\ iso.ex /= "raised"
           /\ iso.ex = "returned"
                => /\ iso.result = "timeout"
                   /\ iso.proc = "closed"
                   /\ ~iso.registered

\* execute_isolated has returned after a timeout that found the process
\* running, while a stop_execution was waiting for the same process.
C23_Witness ==
    /\ iso.st = "open"
    /\ iso.timeout = "alive"
    /\ iso.ex = "returned"
    /\ \E s \in Stops : iso.stops[s].found

\* --------------------------------------------------------------- C24 --
\* C24: a forced kill sent because of the timeout of execute_isolated comes
\* after a graceful termination signal to the same process.
C24_GracefulBeforeKill ==
    iso.st = "open" =>
        \A k \in 1..Len(iso.sent) :
            (iso.sent[k].sig = "KILL" /\ iso.sent[k].by = "timeout")
                => \E j \in 1..(k - 1) : iso.sent[j].sig = "TERM"

\* --------------------------------------------------------------- C25 --
\* C25: when a stop_execution that found the id registered returns, the
\* child process has ended and the id is not in running_processes.
C25_StopWaitsForExit ==
    [][iso.st = "open" /\ iso'.st = "open" =>
        \A s \in Stops :
            (/\ iso.stops[s].pc /= "returned"
             /\ iso'.stops[s].pc = "returned"
             /\ iso'.stops[s].found)
                => /\ iso'.proc \in {"exited", "closed"}
                   /\ ~iso'.registered]_vars

\* --------------------------------- PythonExecutor.parse_isolated_result
\* The child's stdout is a sequence of pieces: "text" (output that is no
\* JSON document and holds no marker), "json" (output that is a JSON object
\* of the program's own making), "marker" (the text
\* ===EXECUTION_RESULT===) and "result" (json.dumps(result), the child's
\* structured result).  Line ends are white space that strip() removes.
Pieces == {"text", "json", "marker"}

\* What the child's script writes: the program's output, then
\* print("===EXECUTION_RESULT===") and print(json.dumps(result)).
ChildStdout(prior) == prior \o <<"marker", "result">>

\* The result the child's script builds: status success or error.
ChildResults == {"success", "error"}

\* The outputs of at most n pieces.
RECURSIVE Outputs(_)
Outputs(n) ==
    IF n = 0 THEN {<<>>}
    ELSE LET S == Outputs(n - 1)
         IN S \cup {Append(l, t) : l \in {x \in S : Len(x) = n - 1}, t \in Pieces}

\* output.split(marker): the parts between the markers, acc being the part
\* that is open.
RECURSIVE SplitMarker(_, _, _)
SplitMarker(out, k, acc) ==
    IF k > Len(out) THEN <<acc>>
    ELSE IF out[k] = "marker" THEN <<acc>> \o SplitMarker(out, k + 1, <<>>)
    ELSE SplitMarker(out, k + 1, Append(acc, out[k]))

\* json.loads(part.strip()): a part that is one JSON document gives its
\* value; anything else raises.
JsonLoads(part, child) ==
    IF Len(part) = 1 /\ part[1] = "result" THEN [kind |-> "result", status |-> child]
    ELSE IF Len(part) = 1 /\ part[1] = "json" THEN [kind |-> "json", status |-> "forged"]
    ELSE [kind |-> "raise", status |-> "none"]

\* parse_isolated_result(stdout, stderr): with a marker in the output,
\* parts[1] is loaded and parts[0] becomes the result's stdout; an exception
\* gives the error result "Failed to parse result".
ParseIsolatedResult(out, child) ==
    IF \E k \in 1..Len(out) : out[k] = "marker"
    THEN LET parts == SplitMarker(out, 1, <<>>)
             loaded == JsonLoads(parts[2], child)
         IN IF loaded.kind = "raise"
            THEN [kind |-> "error", status |-> "error",
                  error |-> "Failed to parse result", stdout |-> out]
            ELSE [kind |-> loaded.kind, status |-> loaded.status,
                  error |-> "none", stdout |-> parts[1]]
    ELSE [kind |-> "error", status |-> "error",
          error |-> "No execution result found", stdout |-> out]

ParseResult ==
    /\ parse.st = "called"
    /\ parse' = [parse EXCEPT !.st = "returned",
                   !.result = ParseIsolatedResult(parse.stdout, parse.child)]
    /\ UNCHANGED <<runVars, collect, dispatch, iso, ws, sched, flow, wsm>>

ParseInit ==
    /\ \E prior \in Outputs(MaxOut), child \in ChildResults :
         parse = [st |-> "called", prior |-> prior, child |-> child,
                  stdout |-> ChildStdout(prior), result |-> "none"]
    /\ collect = CollectIdle
    /\ dispatch = DispatchIdle
    /\ iso = IsoIdle
    /\ ws = WsIdle
    /\ sched = SchedIdle
    /\ flow = FlowIdle
    /\ wsm = WsmIdle
    /\ RunIdle

ParseNext == ParseResult

ParseSpec == ParseInit /\ [][ParseNext]_vars

\* --------------------------------------------------------------- C26 --
\* C26: whatever the program wrote before the marker and the result JSON,
\* parse_isolated_result returns the child's structured result, with the
\* child's status.
C26_PriorOutputHarmless ==
    parse.st = "returned"
        => /\ parse.result.kind = "result"
           /\ parse.result.status = parse.child

\* ------------------------------------ ConnectionManager.send_message
\* One run, as in Spec, in which the sends of the run task's fan-outs are
\* followed.  send_message awaits connection.send_json(message) in a try
\* whose `except Exception` logs the error: a send that fails returns as one
\* that succeeds.  ws is history here: of the fan-out that was started last,
\* got are the clients whose send succeeded, failed those whose send
\* failed, through those that were subscribed whenever the fan-out was
\* started or resumed.
SendsNone == [st |-> "sends", got |-> {}, failed |-> {}, through |-> {}]

\* What send_json does: it returns, or it raises.
SendOutcomes == {"sent", "raises"}

\* A fan-out is started.
SendFanStart ==
    /\ FanStartStep
    /\ ws' = [SendsNone EXCEPT !.through = subscriptions]
    /\ UNCHANGED <<collect, dispatch, iso, parse, sched, flow, wsm>>

\* The send to the client the iterator yielded last has returned, with
\* either outcome, and the loop of the fan-out goes on.
SendFanResume ==
    /\ FanResumeStep
    /\ \E e \in Ids, o \in SendOutcomes :
        /\ executions[e].fan.st = "sending"
        /\ executions'[e].fan /= executions[e].fan
        /\ ws' = [ws EXCEPT
              !.got = IF o = "sent" THEN @ \cup {executions[e].fan.pos} ELSE @,
              !.failed = IF o = "raises" THEN @ \cup {executions[e].fan.pos} ELSE @,
              !.through = @ \cap subscriptions]
    /\ UNCHANGED <<collect, dispatch, iso, parse, sched, flow, wsm>>

SendInit ==
    /\ nodes = [i \in 1..RunNodes |-> i]
    /\ edges \in Graphs(RunNodes, RunEdges)
    /\ dfs = DfsIdle
    /\ vd = VdIdle
    /\ gb = GbIdle
    /\ continueOnError \in BOOLEAN
    /\ subscriptions = {}
    /\ executions = <<>>
    /\ cur = 0
    /\ budget = 1
    /\ requests = <<>>
    /\ collect = CollectIdle
    /\ dispatch = DispatchIdle
    /\ iso = IsoIdle
    /\ parse = ParseIdle
    /\ ws = SendsNone
    /\ sched = SchedIdle
    /\ flow = FlowIdle
    /\ wsm = WsmIdle

SendNext ==
    \/ ExecuteWorkflow
    \/ SendFanStart
    \/ SendFanResume
    \/ ExecuteWorkflowReturn
    \/ RunStart
    \/ PlanBegin
    \/ PlanEnd
    \/ LoopNext
    \/ ExecCall
    \/ ExecReturn
    \/ ExecRaise
    \/ NodeLogged
    \/ NodeFinally
    \/ FailLogged
    \/ RunEnd
    \/ StopExecution
    \/ OrderBuild \/ OrderOuter \/ OrderIter \/ OrderAppend
    \/ SubscribeClient
    \/ UnsubscribeClient

SendSpec == SendInit /\ [][SendNext]_vars

\* --------------------------------------------------------------- C27 --
\* C27: a fan-out in which a send failed does not fail itself, and it has
\* delivered the event to every other client that was subscribed all the
\* time.
C27_SendFailureAbsorbed ==
    \A e \in Ids :
        (/\ ws.st = "sends"
         /\ ws.failed /= {}
         /\ executions[e].fan.st \in {"none", "raised"})
            => /\ executions[e].fan.st = "none"
               /\ ((ws.through \cap subscriptions) \ ws.failed) \subseteq ws.got

\* --------------------------------------------------------------- C28 --
\* C28: the events of an instance reach a client in the order they were
\* produced.  A log of the executor's callback is produced while the run
\* task awaits the executor, before every event the run task sends
\* afterwards: so the send of the log to a client never starts while a send
\* of the run task to that client, started before it, is under way.
C28_EventsInOrder ==
    [][\A e \in Ids : \A c \in Clients :
        (/\ executions'[e].logtask.st = "sending"
         /\ executions'[e].logtask.pos = c
         /\ executions'[e].logtask /= executions[e].logtask)
            => ~(/\ executions[e].fan.st = "sending"
                 /\ executions[e].fan.pos = c)]_vars

\* ---------------------------------------------------- websocket_endpoint
\* The endpoint /ws/{client_id} of every client, with no run followed:
\* ws.active are the clients in manager.active_connections, ws.subs is
\* engine.subscriptions, the set of client ids of every workflow id (a
\* workflow id that is no key stands with the empty set).  History:
\* ws.ended is how the last connection of a client ended.
WsStart ==
    [st |-> "open", active |-> {},
     subs |-> [w \in WorkflowIds |-> {}],
     ended |-> [c \in Clients |-> "none"]]

\* manager.connect: the socket is accepted and registered.
WsConnect ==
    /\ ws.st = "open"
    /\ \E c \in Clients :
        /\ c \notin ws.active
        /\ ws' = [ws EXCEPT !.active = @ \cup {c}]
    /\ UNCHANGED <<runVars, collect, dispatch, iso, parse, sched, flow, wsm>>

\* The message {"type": "subscribe", "workflowId": w}: subscribe_client.
WsSubscribe ==
    /\ ws.st = "open"
    /\ \E c \in ws.active, w \in WorkflowIds :
        ws' = [ws EXCEPT !.subs[w] = @ \cup {c}]
    /\ UNCHANGED <<runVars, collect, dispatch, iso, parse, sched, flow, wsm>>

\* The message {"type": "unsubscribe", "workflowId": w}: unsubscribe_client.
WsUnsubscribe ==
    /\ ws.st = "open"
    /\ \E c \in ws.active, w \in WorkflowIds :
        ws' = [ws EXCEPT !.subs[w] = @ \ {c}]
    /\ UNCHANGED <<runVars, collect, dispatch, iso, parse, sched, flow, wsm>>

\* unsubscribe_all: the client is discarded from the set of every workflow.
UnsubscribeAll(subs, c) == [w \in DOMAIN subs |-> subs[w] \ {c}]

\* receive_json raises WebSocketDisconnect: manager.disconnect and
\* engine.unsubscribe_all.
WsDisconnect ==
    /\ ws.st = "open"
    /\ \E c \in ws.active :
        ws' = [ws EXCEPT !.active = @ \ {c},
                         !.subs = UnsubscribeAll(@, c),
                         !.ended[c] = "clean"]
    /\ UNCHANGED <<runVars, collect, dispatch, iso, parse, sched, flow, wsm>>

\* Another exception leaves the message loop (a message that is no JSON
\* object, an "execute" for a workflow id that is not loaded, which raises
\* ValueError): `except Exception` logs it and calls manager.disconnect.
WsError ==
    /\ ws.st = "open"
    /\ \E c \in ws.active :
        ws' = [ws EXCEPT !.active = @ \ {c}, !.ended[c] = "error"]
    /\ UNCHANGED <<runVars, collect, dispatch, iso, parse, sched, flow, wsm>>

WsInit ==
    /\ ws = WsStart
    /\ collect = CollectIdle
    /\ dispatch = DispatchIdle
    /\ iso = IsoIdle
    /\ parse = ParseIdle
    /\ sched = SchedIdle
    /\ flow = FlowIdle
    /\ wsm = WsmIdle
    /\ RunIdle

WsNext ==
    \/ WsConnect
    \/ WsSubscribe
    \/ WsUnsubscribe
    \/ WsDisconnect
    \/ WsError

WsSpec == WsInit /\ [][WsNext]_vars

\* --------------------------------------------------------------- C29 --
\* C29: a client whose connection has ended, and that has not connected
\* again, is in the subscription set of no workflow.
C29_EndedClientUnsubscribed ==
    ws.st = "open" =>
        \A c \in Clients :
            (c \notin ws.active /\ ws.ended[c] /= "none")
                => \A w \in WorkflowIds : c \notin ws.subs[w]

\* --------------------------------------------------------------- C30 --
\* C30: whatever the clients subscribe and unsubscribe meanwhile, no fan-out
\* of a run fails: no loop over the subscribers raises, and no node, no
\* instance and no run task ends with the error of a fan-out.
C30_FanOutUnharmed ==
    \A e \in Ids :
        /\ executions[e].fan.st /= "raised"
        /\ executions[e].error /= "RuntimeError"
        /\ executions[e].escaped /= "RuntimeError"
        /\ \A n \in NodeSet : executions[e].node_executions[n].error /= "RuntimeError"

\* --------------------------------------------------------------- C31 --
\* The places of _run_workflow (not of execute_workflow) at which an event
\* is sent.
RunLoopCalls == {"started", "node_running", "node_log", "node_finally",
                 "fail_log", "final"}

\* C31: the run loop is never suspended in the delivery of an event: there
\* is no state in which the run task waits for a send to a client to
\* return before it can go on.
C31_DeliveryNeverSuspends ==
    \A e \in Ids :
        ~(/\ executions[e].pc \in RunLoopCalls
          /\ executions[e].fan.st = "sending"
          /\ cur /= e)

\* --------------------------------------------------------------- C39 --
\* C39: an instance whose status is Success, Failed or Cancelled has no
\* node record in status Running.
C39_TerminalHasNoRunningNode ==
    \A e \in Ids :
        executions[e].status \in {"success", "failed", "cancelled"}
            => \A n \in NodeSet : executions[e].node_executions[n].status /= "running"

\* --------------------------------------------------------------- C40 --
\* C40: when the id of an isolated execution that was registered is no
\* longer in running_processes, its child process has ended.
C40_NoProcessOutlivesEntry ==
    (iso.st = "open" /\ iso.ex /= "idle" /\ ~iso.registered)
        => iso.proc \in {"exited", "closed"}

\* ---------------------------------------------------------------------------
\* SchedulerNode (nodes/scheduler.py): the task queue and optimize_schedule.
\* A task is named by the position at which execute() inserted it, so the
\* order of the names is the order of insertion.
\* ---------------------------------------------------------------------------

MaxTasks == 3
MaxPriority == 2

Priorities == 1..MaxPriority

\* The newTasks of one call of execute(): every task is created in status
\* 'scheduled', with a priority and a list of dependencies among the others.
TaskLists ==
    UNION {{t \in [1..n -> [priority : Priorities,
                            dependencies : SUBSET (1..n),
                            status : {"scheduled"}]] :
                \A i \in 1..n : i \notin t[i].dependencies} : n \in 1..MaxTasks}

\* ScheduledTask.__lt__: the task of the higher priority is the smaller one.
TaskLt(tasks, a, b) == tasks[a].priority > tasks[b].priority

\* The sift of heapq.heappush: the new item climbs while it is smaller than
\* its parent.
RECURSIVE SiftUp(_, _, _, _)
SiftUp(tasks, heap, pos, item) ==
    IF pos > 1 /\ TaskLt(tasks, item, heap[pos \div 2])
    THEN SiftUp(tasks, [heap EXCEPT ![pos] = heap[pos \div 2]], pos \div 2, item)
    ELSE [heap EXCEPT ![pos] = item]

HeapPush(tasks, heap, item) == SiftUp(tasks, Append(heap, item), Len(heap) + 1, item)

\* build_dependency_graph: the keys of the graph, in the order of the dict,
\* are the tasks of task_queue in the order of the list (no task is running);
\* the value of a key is tasks[key].dependencies.
BuildDependencyGraph(task_queue) == task_queue

\* The in_degree of topological_sort: a key is counted once for every task
\* that names it as a dependency.
InDegree(tasks, graph) ==
    [n \in {graph[k] : k \in 1..Len(graph)} |->
        Cardinality({m \in {graph[k] : k \in 1..Len(graph)} : n \in tasks[m].dependencies})]

\* The loop of topological_sort: the head of the queue is appended to the
\* result, every key that lists it loses one count, and the keys that reach
\* zero join the queue in the order of the dict.
RECURSIVE TopoLoop(_, _, _, _, _)
TopoLoop(tasks, graph, queue, result, in_degree) ==
    IF queue = <<>> THEN result
    ELSE LET node == Head(queue)
             Lists(n) == node \in tasks[n].dependencies
             Freed(n) == Lists(n) /\ in_degree[n] = 1
         IN  TopoLoop(tasks, graph,
                      Tail(queue) \o SelectSeq(graph, Freed),
                      Append(result, node),
                      [n \in DOMAIN in_degree |->
                          IF Lists(n) THEN in_degree[n] - 1 ELSE in_degree[n]])

TopologicalSort(tasks, graph) ==
    LET in_degree == InDegree(tasks, graph)
        Zero(n) == in_degree[n] = 0
    IN  TopoLoop(tasks, graph, SelectSeq(graph, Zero), <<>>, in_degree)

\* list.sort(key=priority, reverse=True): stable, so the tasks of one
\* priority keep the order they had.
RECURSIVE SortByPriority(_, _)
SortByPriority(tasks, seq) ==
    IF seq = <<>> THEN <<>>
    ELSE LET x == seq[Len(seq)]
             rest == SortByPriority(tasks, SubSeq(seq, 1, Len(seq) - 1))
             NotBelow(y) == tasks[y].priority >= tasks[x].priority
             Below(y) == tasks[y].priority < tasks[x].priority
         IN  SelectSeq(rest, NotBelow) \o <<x>> \o SelectSeq(rest, Below)

\* optimize_schedule.
OptimizeSchedule(tasks, task_queue) ==
    LET execution_order == TopologicalSort(tasks, BuildDependencyGraph(task_queue))
        Scheduled(id) == tasks[id].status = "scheduled"
    IN  SortByPriority(tasks, SelectSeq(execution_order, Scheduled))

\* execute(): the next of the new tasks is pushed onto the queue.
SchedPush ==
    /\ sched.st = "queue"
    /\ sched.pushed < Len(sched.tasks)
    /\ sched' = [sched EXCEPT
          !.pushed = @ + 1,
          !.task_queue = HeapPush(sched.tasks, @, sched.pushed + 1)]
    /\ UNCHANGED <<runVars, collect, dispatch, iso, parse, ws, flow, wsm>>

\* execute(): all new tasks are in the queue and the schedule is optimized.
SchedOptimize ==
    /\ sched.st = "queue"
    /\ sched.pushed = Len(sched.tasks)
    /\ sched' = [sched EXCEPT
          !.st = "done",
          !.schedule = OptimizeSchedule(sched.tasks, sched.task_queue)]
    /\ UNCHANGED <<runVars, collect, dispatch, iso, parse, ws, flow, wsm>>

SchedInit ==
    /\ sched \in {[st |-> "queue", tasks |-> t, pushed |-> 0,
                   task_queue |-> <<>>, schedule |-> <<>>] : t \in TaskLists}
    /\ collect = CollectIdle
    /\ dispatch = DispatchIdle
    /\ iso = IsoIdle
    /\ parse = ParseIdle
    /\ ws = WsIdle
    /\ flow = FlowIdle
    /\ wsm = WsmIdle
    /\ RunIdle

SchedNext == SchedPush \/ SchedOptimize

SchedSpec == SchedInit /\ [][SchedNext]_vars

\* The positions of a schedule.
Slots == 1..Len(sched.schedule)

\* C34: the schedule lists the tasks in descending priority, and the tasks of
\* one priority in the order in which they were inserted into the queue.
C34_PriorityThenInsertion ==
    sched.st = "done" =>
        \A i, j \in Slots :
            i < j =>
                LET a == sched.schedule[i]
                    b == sched.schedule[j]
                IN  /\ sched.tasks[a].priority >= sched.tasks[b].priority
                    /\ sched.tasks[a].priority = sched.tasks[b].priority => a < b

\* The tasks a set of tasks depends on, directly or through k further steps.
RECURSIVE TaskDependsOn(_, _, _)
TaskDependsOn(tasks, S, k) ==
    IF k = 0 THEN S
    ELSE TaskDependsOn(tasks, S \cup UNION {tasks[x].dependencies : x \in S}, k - 1)

Acyclic(tasks) ==
    \A a \in DOMAIN tasks : a \notin TaskDependsOn(tasks, tasks[a].dependencies, Len(tasks))

\* C35: for acyclic dependencies the schedule holds every scheduled task
\* exactly once, and no task before a task it depends on.
C35_DependencyRespectingPermutation ==
    (sched.st = "done" /\ Acyclic(sched.tasks)) =>
        /\ Len(sched.schedule) = Len(sched.tasks)
        /\ {sched.schedule[i] : i \in Slots} = DOMAIN sched.tasks
        /\ \A i, j \in Slots :
              i < j => sched.schedule[j] \notin sched.tasks[sched.schedule[i]].dependencies

\* ---------------------------------------------------------------------------
\* FlowNode.create_execution_plan (nodes/flow.py): the execution list, the
\* manager nodes inserted every managerExecutionInterval entries, and
\* validate_dependencies over the whole.
\* ---------------------------------------------------------------------------

MaxList == 4
MaxManagers == 2
MaxInterval == 2

\* The manager ids differ from the ids of the execution list.
ManagerIds == [i \in 1..MaxManagers |-> MaxList + i]

\* The execution lists: entry i has nodeId i and names at most one other entry
\* as its dependency.
ExecutionLists ==
    UNION {[1..n -> {<<>>} \cup {<<d>> : d \in 1..n}] : n \in 0..MaxList}

PlanEntry(id, deps) == [nodeId |-> id, isManager |-> FALSE, dependencies |-> deps]
ManagerEntry(id) == [nodeId |-> id, isManager |-> TRUE, dependencies |-> <<>>]

\* The loop of create_execution_plan from entry idx on: the entry is appended,
\* and after every interval-th entry one entry for every manager node.
RECURSIVE PlanFrom(_, _, _, _)
PlanFrom(execution_list, manager_nodes, interval, idx) ==
    IF idx > Len(execution_list) THEN <<>>
    ELSE <<PlanEntry(idx, execution_list[idx])>>
         \o (IF idx % interval = 0 /\ manager_nodes /= <<>>
             THEN [m \in 1..Len(manager_nodes) |-> ManagerEntry(manager_nodes[m])]
             ELSE <<>>)
         \o PlanFrom(execution_list, manager_nodes, interval, idx + 1)

\* visit(item) of validate_dependencies, and its loop over the dependencies.
RECURSIVE PlanVisit(_, _, _)
RECURSIVE PlanVisitDeps(_, _, _, _)
PlanVisit(plan, i, s) ==
    IF plan[i].nodeId \in s.visited THEN s
    ELSE LET seen == [s EXCEPT !.visited = @ \cup {plan[i].nodeId}]
             after == PlanVisitDeps(plan, plan[i].dependencies, 1, seen)
         IN  [after EXCEPT !.validated = Append(@, plan[i])]

PlanVisitDeps(plan, deps, k, s) ==
    IF k > Len(deps) THEN s
    ELSE PlanVisitDeps(plan, deps, k + 1,
            IF InNodeIndex(plan, deps[k]) /\ deps[k] \notin s.visited
            THEN PlanVisit(plan, NodeIndex(plan, deps[k]), s)
            ELSE s)

\* for item in plan: visit(item)
RECURSIVE PlanVisitAll(_, _, _)
PlanVisitAll(plan, i, s) ==
    IF i > Len(plan) THEN s
    ELSE PlanVisitAll(plan, i + 1, PlanVisit(plan, i, s))

ValidateDependencies(plan) ==
    PlanVisitAll(plan, 1, [visited |-> {}, validated |-> <<>>]).validated

CreateExecutionPlan(execution_list, manager_nodes, interval) ==
    ValidateDependencies(PlanFrom(execution_list, manager_nodes, interval, 1))

\* FlowNode.execute up to the plan: the inputs are read.
ManagerInit ==
    /\ flow \in {[st |-> "input", execution_list |-> l, manager_nodes |-> SubSeq(ManagerIds, 1, m),
                  interval |-> n, plan |-> <<>>] :
                    l \in ExecutionLists, m \in 0..MaxManagers, n \in 1..MaxInterval}
    /\ collect = CollectIdle
    /\ dispatch = DispatchIdle
    /\ iso = IsoIdle
    /\ parse = ParseIdle
    /\ ws = WsIdle
    /\ sched = SchedIdle
    /\ wsm = WsmIdle
    /\ RunIdle

\* execute(): with nothing to execute it returns without a plan.
PlanNothing ==
    /\ flow.st = "input"
    /\ flow.execution_list = <<>> /\ flow.manager_nodes = <<>>
    /\ flow' = [flow EXCEPT !.st = "nothing"]
    /\ UNCHANGED <<runVars, collect, dispatch, iso, parse, ws, sched, wsm>>

\* execute(): the plan is created.
PlanCreate ==
    /\ flow.st = "input"
    /\ ~(flow.execution_list = <<>> /\ flow.manager_nodes = <<>>)
    /\ flow' = [flow EXCEPT
          !.st = "planned",
          !.plan = CreateExecutionPlan(flow.execution_list, flow.manager_nodes, flow.interval)]
    /\ UNCHANGED <<runVars, collect, dispatch, iso, parse, ws, sched, wsm>>

ManagerNext == PlanNothing \/ PlanCreate

ManagerSpec == ManagerInit /\ [][ManagerNext]_vars

\* How often a node id stands in a plan.
Occurrences(plan, id) == Cardinality({i \in 1..Len(plan) : plan[i].nodeId = id})

\* C37: every manager node stands in the final plan once for every N entries
\* of the execution list (N = managerExecutionInterval).
C37_ManagersEveryInterval ==
    flow.st = "planned" =>
        \A m \in 1..Len(flow.manager_nodes) :
            Occurrences(flow.plan, flow.manager_nodes[m])
                = Len(flow.execution_list) \div flow.interval

\* The plan before validate_dependencies holds the managers that often.
C37_InsertedEveryInterval ==
    flow.st = "planned" =>
        \A m \in 1..Len(flow.manager_nodes) :
            Occurrences(PlanFrom(flow.execution_list, flow.manager_nodes, flow.interval, 1),
                        flow.manager_nodes[m])
                = Len(flow.execution_list) \div flow.interval

\* ---------------------------------------------------------------------------
\* FlowNode.execute in sequential mode on the module-level instance flow_node
\* (nodes/flow.py).  The instance has one flag is_running for all the calls of
\* execute; the calls run as tasks of one event loop and flow.cur is the call
\* that runs (0: none).  A call dispatches its plan entry by entry; a
\* dispatched flow entry calls flow_node.execute again with the data of the
\* caller, so the nested execution has the plan of its caller; the frames of a
\* call are the executions nested so far, the last one the innermost.
\* ---------------------------------------------------------------------------

MaxFlows == 2
MaxPlan == 2
MaxDepth == 2

FlowCalls == 1..MaxFlows

\* What a plan entry's executor does when it is dispatched: a worker whose
\* code runs, a worker whose user code raises, an executor whose execute
\* returns a result of status error, an executor that raises, and an entry of
\* type flow.
EntryKinds == {"ok", "user code raises", "returns error", "raises", "flow"}

\* The kinds of entry whose executor fails.
FailingKinds == {"user code raises", "returns error", "raises"}

\* The plans of at most n entries.
RECURSIVE KindLists(_)
KindLists(n) ==
    IF n = 0 THEN {<<>>}
    ELSE LET S == KindLists(n - 1)
         IN S \cup {Append(l, t) : l \in {x \in S : Len(x) = n - 1}, t \in EntryKinds}

\* WorkerNode.run_python_code: an exception of the user code is caught and the
\* mapping returned carries it under 'error'.
RunPythonCode(kind) == [error |-> kind = "user code raises"]

\* WorkerNode.execute: the result of run_python_code is wrapped in a mapping of
\* status success, whatever its 'error'; an exception of execute's own steps
\* gives a mapping of status error.
WorkerExecute(kind) ==
    IF kind = "returns error" THEN Returned("error", "executor error")
    ELSE IF RunPythonCode(kind).error THEN Returned("success", "none")
    ELSE Returned("success", "none")

\* FlowNode.execute_single_node for an entry that is not a flow: what execute
\* returns is returned, what it raises is raised again as Exception.
SingleNodeOutcome(kind) ==
    IF kind = "raises" THEN Raised("Exception", "Error executing node")
    ELSE WorkerExecute(kind)

\* The entry execute_sequential appends to results: status success around
\* whatever was returned, status error and the message for an exception.
SequentialResult(out) ==
    IF out.kind = "raise" THEN [status |-> "error", error |-> out.error]
    ELSE [status |-> "success", error |-> "none"]

\* analyze_results.
AnalyzeResults(results) ==
    [total |-> Len(results),
     successful |-> Cardinality({j \in 1..Len(results) : results[j].status = "success"}),
     failed |-> Cardinality({j \in 1..Len(results) : results[j].status = "error"})]

NewFrame == [k |-> 1, results |-> <<>>]

FlowCallIdle(plan, eh) ==
    [pc |-> "idle", plan |-> plan, errorHandling |-> eh, frames |-> <<>>,
     finished |-> <<>>, stop_requested |-> FALSE, ret |-> "none"]

\* The innermost execution of a call.
Depth(c) == Len(flow.calls[c].frames)
TopFrame(c) == flow.calls[c].frames[Depth(c)]

\* results.append(...) in the innermost execution of call c, and the end of
\* the loop body: break under errorHandling stop after an exception, else the
\* next entry.
Recorded(call, out) ==
    LET d == Len(call.frames)
        r == SequentialResult(out)
    IN  [call EXCEPT
            !.frames[d].results = Append(@, r),
            !.frames[d].k = @ + 1,
            !.pc = IF r.status = "error" /\ call.errorHandling = "stop"
                   THEN "finish" ELSE "loop"]

\* flow_node.execute(node_id, data) is called: without entries it returns at
\* once; else the plan is made, is_running is set and the loop begins.
FlowExecute ==
    /\ flow.st = "run"
    /\ flow.cur = 0
    /\ \E c \in FlowCalls :
        /\ flow.calls[c].pc = "idle"
        /\ flow' = IF flow.calls[c].plan = <<>>
                   THEN [flow EXCEPT !.calls[c].pc = "done", !.calls[c].ret = "nothing"]
                   ELSE [flow EXCEPT !.is_running = TRUE,
                                     !.cur = c,
                                     !.calls[c].pc = "loop",
                                     !.calls[c].frames = <<NewFrame>>]
    /\ UNCHANGED <<runVars, collect, dispatch, iso, parse, ws, sched, wsm>>

\* execute_sequential: `for item in execution_plan: if not self.is_running:
\* break`, and the dispatch of the item.  An executor may suspend the call.  A
\* flow entry calls execute again, on the same instance and with the same
\* data; at the recursion limit the call fails instead, either raising into
\* execute_single_node or inside the nested execute, whose handler clears
\* is_running and returns a mapping of status error.
FlowLoop ==
    /\ flow.st = "run"
    /\ flow.cur /= 0
    /\ LET c == flow.cur
           call == flow.calls[c]
           f == TopFrame(c)
       IN  /\ call.pc = "loop"
           /\ IF f.k > Len(call.plan) \/ ~flow.is_running
              THEN flow' = [flow EXCEPT !.calls[c].pc = "finish"]
              ELSE IF call.plan[f.k] = "flow"
              THEN IF Depth(c) < MaxDepth
                   THEN flow' = [flow EXCEPT !.is_running = TRUE,
                                             !.calls[c].frames = Append(@, NewFrame)]
                   ELSE \/ flow' = [flow EXCEPT !.calls[c] =
                                Recorded(call, Raised("Exception", "Error executing node"))]
                        \/ flow' = [flow EXCEPT !.is_running = FALSE, !.calls[c] =
                                Recorded(call, Returned("error", "executor error"))]
              ELSE \/ flow' = [flow EXCEPT !.cur = 0, !.calls[c].pc = "suspended"]
                   \/ flow' = [flow EXCEPT !.calls[c] =
                                Recorded(call, SingleNodeOutcome(call.plan[f.k]))]
    /\ UNCHANGED <<runVars, collect, dispatch, iso, parse, ws, sched, wsm>>

\* The executor a call was suspended in ends, and the call goes on.
FlowResume ==
    /\ flow.st = "run"
    /\ flow.cur = 0
    /\ \E c \in FlowCalls :
        /\ flow.calls[c].pc = "suspended"
        /\ flow' = [flow EXCEPT !.cur = c, !.calls[c] =
              Recorded(flow.calls[c], SingleNodeOutcome(flow.calls[c].plan[TopFrame(c).k]))]
    /\ UNCHANGED <<runVars, collect, dispatch, iso, parse, ws, sched, wsm>>

\* execute after execute_workflow: is_running is cleared, the results are
\* analyzed and saved (which may raise) and execute returns a mapping.  The
\* caller of a nested execution records the entry with status success and goes
\* on with its loop.
FlowFinish ==
    /\ flow.st = "run"
    /\ flow.cur /= 0
    /\ LET c == flow.cur
           call == flow.calls[c]
           d == Depth(c)
       IN  /\ call.pc = "finish"
           /\ \E saved \in BOOLEAN :
                LET ret == IF saved THEN Returned("success", "none")
                           ELSE Returned("error", "executor error")
                IN  flow' =
                      IF d > 1
                      THEN [flow EXCEPT !.is_running = FALSE, !.calls[c] =
                              Recorded([call EXCEPT !.frames = SubSeq(@, 1, d - 1),
                                                    !.finished = Append(@, call.frames[d].results)],
                                       ret)]
                      ELSE [flow EXCEPT !.is_running = FALSE,
                                        !.cur = 0,
                                        !.calls[c].pc = "done",
                                        !.calls[c].ret = ret.status]
    /\ UNCHANGED <<runVars, collect, dispatch, iso, parse, ws, sched, wsm>>

\* flow_node.stop_execution(node_id) for a call that is suspended in an
\* executor.
FlowStop ==
    /\ flow.st = "run"
    /\ flow.cur = 0
    /\ \E c \in FlowCalls :
        /\ flow.calls[c].pc = "suspended"
        /\ ~flow.calls[c].stop_requested
        /\ flow' = [flow EXCEPT !.is_running = FALSE,
                                !.calls[c].stop_requested = TRUE]
    /\ UNCHANGED <<runVars, collect, dispatch, iso, parse, ws, sched, wsm>>

FlowInit ==
    /\ flow \in {[st |-> "run", is_running |-> FALSE, cur |-> 0,
                  calls |-> [c \in FlowCalls |-> FlowCallIdle(p[c], eh[c])]] :
                    p \in [FlowCalls -> KindLists(MaxPlan)],
                    eh \in [FlowCalls -> {"continue", "stop"}]}
    /\ collect = CollectIdle
    /\ dispatch = DispatchIdle
    /\ iso = IsoIdle
    /\ parse = ParseIdle
    /\ ws = WsIdle
    /\ sched = SchedIdle
    /\ wsm = WsmIdle
    /\ RunIdle

FlowNext == FlowExecute \/ FlowLoop \/ FlowResume \/ FlowFinish \/ FlowStop

FlowSpec == FlowInit /\ [][FlowNext]_vars

\* The results of the executions of call c that have ended: the nested ones,
\* and the outermost once execute has returned.
EndedResults(c) ==
    {flow.calls[c].finished[i] : i \in 1..Len(flow.calls[c].finished)}
        \cup (IF flow.calls[c].pc = "done" /\ flow.calls[c].frames /= <<>>
              THEN {flow.calls[c].frames[1].results} ELSE {})

\* The results of all the executions of call c, ended or not.
AllResults(c) ==
    EndedResults(c) \cup {flow.calls[c].frames[i].results : i \in 1..Len(flow.calls[c].frames)}

\* C33: a flow execution that has ended has run every entry of its plan,
\* unless its own stop was requested or its stop-on-error policy triggered;
\* no other execution, nested or concurrent, makes it skip entries.
C33_OwnPlanRunToEnd ==
    flow.st = "run" =>
        \A c \in FlowCalls : \A r \in EndedResults(c) :
            \/ Len(r) = Len(flow.calls[c].plan)
            \/ flow.calls[c].stop_requested
            \/ /\ flow.calls[c].errorHandling = "stop"
               /\ r /= <<>>
               /\ r[Len(r)].status = "error"

\* C36: an entry whose executor fails is recorded with status error and its
\* message, is counted as failed and not as successful, and under
\* errorHandling stop it is the last entry that was run.
C36_FailureRecorded ==
    flow.st = "run" =>
        \A c \in FlowCalls : \A r \in AllResults(c) :
            LET plan == flow.calls[c].plan
                failing == {j \in 1..Len(r) : plan[j] \in FailingKinds}
            IN  /\ \A j \in failing :
                      /\ r[j].status = "error"
                      /\ r[j].error /= "none"
                      /\ flow.calls[c].errorHandling = "stop" => Len(r) = j
                /\ AnalyzeResults(r).failed >= Cardinality(failing)
                /\ AnalyzeResults(r).successful <= Len(r) - Cardinality(failing)

\* ---------------------------------------------------------------------------
\* FlowNode.execute in parallel mode (nodes/flow.py): execute_parallel and the
\* tasks it creates, on one event loop.  The tasks of a group run while
\* execute_parallel waits in `await task`; flow.pc is the place of
\* execute_parallel, flow.tasks[id].st the place of the task of an entry and
\* flow.tasks[id].status the entry's status in execution_status.
\* ---------------------------------------------------------------------------

MaxPar == 3

\* The validated plans: entry i has nodeId i and at most one dependency.
ParPlans ==
    UNION {{[i \in 1..n |-> [nodeId |-> i, dependencies |-> d[i]]] :
                d \in [1..n -> {{}} \cup {{x} : x \in 1..n}]} : n \in 0..MaxPar}

\* group_by_dependencies: the passes of its loop until it returns.
RECURSIVE GroupsFrom(_, _)
GroupsFrom(plan, g) ==
    IF g.st = "returned" THEN g.groups ELSE GroupsFrom(plan, GroupPass(plan, g))

GroupByDependencies(plan) == GroupsFrom(plan, [GbIdle EXCEPT !.st = "run"])

TaskNone == [st |-> "none", status |-> "none"]

\* The group execute_parallel is at, and its entry at position k.
ParGroupNow == flow.groups[flow.g]
ParId(k) == ParGroupNow[k].nodeId

\* The end of execute_single_node_async for entry t: execute_single_node has
\* returned or raised, the status is updated and the task is done.
TaskEnd(t, o) ==
    [flow EXCEPT !.tasks[t] = [st |-> "done",
                               status |-> IF o = "returns" THEN "completed" ELSE "error"]]

\* execute(): without entries it returns at once; else the plan is grouped and
\* is_running is set.
ParExecute ==
    /\ flow.st = "par"
    /\ flow.pc = "idle"
    /\ flow' = IF flow.plan = <<>>
               THEN [flow EXCEPT !.pc = "nothing"]
               ELSE [flow EXCEPT !.pc = "top",
                                 !.is_running = TRUE,
                                 !.groups = GroupByDependencies(flow.plan)]
    /\ UNCHANGED <<runVars, collect, dispatch, iso, parse, ws, sched, wsm>>

\* `for group in groups: if not self.is_running: break`; after the loop
\* execute clears is_running.
ParGroup ==
    /\ flow.st = "par"
    /\ flow.pc = "top"
    /\ flow' = IF flow.g > Len(flow.groups) \/ ~flow.is_running
               THEN [flow EXCEPT !.pc = "done", !.is_running = FALSE]
               ELSE [flow EXCEPT !.pc = "create", !.k = 1]
    /\ UNCHANGED <<runVars, collect, dispatch, iso, parse, ws, sched, wsm>>

\* `for item in group: asyncio.create_task(...)`: the task of the next entry
\* is created; after the last one the loop over tasks begins.
ParCreate ==
    /\ flow.st = "par"
    /\ flow.pc = "create"
    /\ flow' = IF flow.k <= Len(ParGroupNow)
               THEN [flow EXCEPT !.tasks[ParId(flow.k)].st = "created", !.k = @ + 1]
               ELSE [flow EXCEPT !.pc = "await", !.k = 1]
    /\ UNCHANGED <<runVars, collect, dispatch, iso, parse, ws, sched, wsm>>

\* Variant of ParAwait that takes the result without waiting for the task.
ParAwaitNoWait ==
    /\ flow.st = "par"
    /\ flow.pc = "await"
    /\ flow' = IF flow.k <= Len(ParGroupNow)
               THEN [flow EXCEPT !.results = Append(@, ParId(flow.k)), !.k = @ + 1]
               ELSE [flow EXCEPT !.pc = "top", !.g = @ + 1]
    /\ UNCHANGED <<runVars, collect, dispatch, iso, parse, ws, sched, wsm>>

\* `for item, task in tasks: result = await task`: when the task is done its
\* result is appended; after the last one the next group follows.
ParAwait ==
    /\ flow.st = "par"
    /\ flow.pc = "await"
    /\ flow.k <= Len(ParGroupNow) => flow.tasks[ParId(flow.k)].st = "done"
    /\ flow' = IF flow.k <= Len(ParGroupNow)
               THEN [flow EXCEPT !.results = Append(@, ParId(flow.k)), !.k = @ + 1]
               ELSE [flow EXCEPT !.pc = "top", !.g = @ + 1]
    /\ UNCHANGED <<runVars, collect, dispatch, iso, parse, ws, sched, wsm>>

\* The task of execute() is cancelled while it waits for a task: the
\* CancelledError passes `except Exception`, and the task waited for is
\* cancelled with it.
ParCancel ==
    /\ flow.st = "par"
    /\ flow.pc = "await"
    /\ flow.k <= Len(ParGroupNow)
    /\ flow.tasks[ParId(flow.k)].st /= "done"
    /\ flow' = [flow EXCEPT !.pc = "cancelled", !.tasks[ParId(flow.k)].st = "done"]
    /\ UNCHANGED <<runVars, collect, dispatch, iso, parse, ws, sched, wsm>>

\* execute_single_node_async begins: the status becomes running and the
\* executor is awaited, which suspends the task or ends at once.
TaskStart ==
    /\ flow.st = "par"
    /\ flow.pc \in {"await", "cancelled"}
    /\ \E t \in DOMAIN flow.tasks :
        /\ flow.tasks[t].st = "created"
        /\ \/ flow' = [flow EXCEPT !.tasks[t] = [st |-> "suspended", status |-> "running"]]
           \/ \E o \in {"returns", "raises"} : flow' = TaskEnd(t, o)
    /\ UNCHANGED <<runVars, collect, dispatch, iso, parse, ws, sched, wsm>>

\* The executor of a suspended task ends.
TaskResume ==
    /\ flow.st = "par"
    /\ flow.pc \in {"await", "cancelled"}
    /\ \E t \in DOMAIN flow.tasks :
        /\ flow.tasks[t].st = "suspended"
        /\ \E o \in {"returns", "raises"} : flow' = TaskEnd(t, o)
    /\ UNCHANGED <<runVars, collect, dispatch, iso, parse, ws, sched, wsm>>

\* stop_execution, or the end of another execution on the instance, clears
\* is_running while execute_parallel waits.
ParStop ==
    /\ flow.st = "par"
    /\ flow.pc = "await"
    /\ flow.is_running
    /\ flow' = [flow EXCEPT !.is_running = FALSE]
    /\ UNCHANGED <<runVars, collect, dispatch, iso, parse, ws, sched, wsm>>

ParInit ==
    /\ flow \in {[st |-> "par", pc |-> "idle", is_running |-> FALSE, plan |-> p,
                  groups |-> <<>>, g |-> 1, k |-> 1,
                  tasks |-> [t \in 1..Len(p) |-> TaskNone], results |-> <<>>] :
                    p \in ParPlans}
    /\ collect = CollectIdle
    /\ dispatch = DispatchIdle
    /\ iso = IsoIdle
    /\ parse = ParseIdle
    /\ ws = WsIdle
    /\ sched = SchedIdle
    /\ wsm = WsmIdle
    /\ RunIdle

ParNext ==
    \/ ParExecute \/ ParGroup \/ ParCreate \/ ParAwait \/ ParCancel
    \/ TaskStart \/ TaskResume \/ ParStop

ParSpec == ParInit /\ [][ParNext]_vars

\* The entries of group h, and the entries whose task was created.
GroupIds(h) == IdsOf(flow.groups[h])
Started(t) == flow.tasks[t].st /= "none"
Terminal(t) == flow.tasks[t].status \in {"completed", "error"}

\* C32: when execute_parallel awaits a task of a group, the tasks of all the
\* entries of the group have been created; and an entry of a later group is
\* started only when every entry of the groups before it has reached the
\* status completed or error, also when one of them failed.
C32_GroupBarrier ==
    flow.st = "par" =>
        /\ flow.pc = "await" => \A t \in GroupIds(flow.g) : Started(t)
        /\ \A h \in 1..Len(flow.groups) : \A t \in GroupIds(h) :
              Started(t) => \A b \in 1..(h - 1) : \A u \in GroupIds(b) : Terminal(u)

\* A group of two entries, one of which failed, and a started entry of the
\* group after it.
C32_Witness ==
    /\ flow.st = "par"
    /\ Len(flow.groups) >= 2
    /\ Len(flow.groups[1]) >= 2
    /\ \E u \in GroupIds(1) : flow.tasks[u].status = "error"
    /\ \E t \in GroupIds(2) : Started(t)

\* ---------------------------------------------------------------------------
\* WebSocketManager (utils/websocket_manager.py): clients, channels and
\* node_clients.  wsm.clients maps the id of a connected client to its
\* Client.subscriptions, wsm.channels a channel to its set of subscribers,
\* wsm.node_clients a node id to its client; wsm.last is the call made last
\* and how it ended.
\* ---------------------------------------------------------------------------

MaxWsClients == 2
MaxChannels == 2
MaxWsNodes == 2

WsmClientIds == 1..MaxWsClients
WsmChannelIds == 1..MaxChannels
WsmNodeIds == 1..MaxWsNodes

\* A mapping without the key k.
Without(f, k) == [x \in DOMAIN f \ {k} |-> f[x]]

\* A mapping with the key k set to v.
With(f, k, v) == [x \in DOMAIN f \cup {k} |-> IF x = k THEN v ELSE f[x]]

\* unsubscribe(client_id, channel).
Unsubscribe(w, c, ch) ==
    IF c \notin DOMAIN w.clients THEN w
    ELSE LET left == IF ch \in DOMAIN w.channels
                     THEN IF w.channels[ch] \ {c} = {}
                          THEN Without(w.channels, ch)
                          ELSE [w.channels EXCEPT ![ch] = @ \ {c}]
                     ELSE w.channels
         IN  [w EXCEPT !.channels = left, !.clients[c] = @ \ {ch}]

\* connect(): the client is stored without subscriptions.
WsmConnect ==
    /\ wsm.st = "open"
    /\ \E c \in WsmClientIds \ DOMAIN wsm.clients :
        wsm' = [wsm EXCEPT !.clients = With(@, c, {}),
                           !.last = [op |-> "connect", client |-> c, out |-> "returned"]]
    /\ UNCHANGED <<runVars, collect, dispatch, iso, parse, ws, sched, flow>>

\* subscribe(client_id, channel).
WsmSubscribe ==
    /\ wsm.st = "open"
    /\ \E c \in WsmClientIds, ch \in WsmChannelIds :
        wsm' = IF c \notin DOMAIN wsm.clients
               THEN [wsm EXCEPT !.last = [op |-> "subscribe", client |-> c, out |-> "False"]]
               ELSE [wsm EXCEPT
                       !.channels = With(@, ch, (IF ch \in DOMAIN @ THEN @[ch] ELSE {}) \cup {c}),
                       !.clients[c] = @ \cup {ch},
                       !.last = [op |-> "subscribe", client |-> c, out |-> "True"]]
    /\ UNCHANGED <<runVars, collect, dispatch, iso, parse, ws, sched, flow>>

\* unsubscribe(client_id, channel), called from outside.
WsmUnsubscribe ==
    /\ wsm.st = "open"
    /\ \E c \in WsmClientIds, ch \in WsmChannelIds :
        wsm' = [Unsubscribe(wsm, c, ch) EXCEPT
                  !.last = [op |-> "unsubscribe", client |-> c,
                            out |-> IF c \in DOMAIN wsm.clients THEN "True" ELSE "False"]]
    /\ UNCHANGED <<runVars, collect, dispatch, iso, parse, ws, sched, flow>>

\* register_node(client_id, node_id).
WsmRegisterNode ==
    /\ wsm.st = "open"
    /\ \E c \in WsmClientIds, n \in WsmNodeIds :
        wsm' = IF c \notin DOMAIN wsm.clients
               THEN [wsm EXCEPT !.last = [op |-> "register_node", client |-> c, out |-> "False"]]
               ELSE [wsm EXCEPT !.node_clients = With(@, n, c),
                                !.last = [op |-> "register_node", client |-> c, out |-> "True"]]
    /\ UNCHANGED <<runVars, collect, dispatch, iso, parse, ws, sched, flow>>

\* unregister_node(node_id).
WsmUnregisterNode ==
    /\ wsm.st = "open"
    /\ \E n \in WsmNodeIds :
        wsm' = [wsm EXCEPT
                  !.node_clients = IF n \in DOMAIN @ THEN Without(@, n) ELSE @,
                  !.last = [op |-> "unregister_node", client |-> 0,
                            out |-> IF n \in DOMAIN wsm.node_clients THEN "True" ELSE "False"]]
    /\ UNCHANGED <<runVars, collect, dispatch, iso, parse, ws, sched, flow>>

\* disconnect(client_id) of a connected client.  `for channel in
\* client.subscriptions: self.unsubscribe(client_id, channel)`: the iterator
\* yields one of the channels, unsubscribe discards it from the very set that
\* is iterated, and the next step of the iterator raises RuntimeError.  With
\* no subscription the loop ends, the node mappings of the client and the
\* client are deleted and disconnect returns.
WsmDisconnect ==
    /\ wsm.st = "open"
    /\ \E c \in DOMAIN wsm.clients :
        IF wsm.clients[c] /= {}
        THEN \E ch \in wsm.clients[c] :
                wsm' = [Unsubscribe(wsm, c, ch) EXCEPT
                          !.last = [op |-> "disconnect", client |-> c, out |-> "RuntimeError"]]
        ELSE wsm' = [wsm EXCEPT
                       !.node_clients = [n \in {x \in DOMAIN @ : @[x] /= c} |-> @[n]],
                       !.clients = Without(@, c),
                       !.last = [op |-> "disconnect", client |-> c, out |-> "returned"]]
    /\ UNCHANGED <<runVars, collect, dispatch, iso, parse, ws, sched, flow>>

\* disconnect(client_id) of a client that is not connected returns at once.
WsmDisconnectUnknown ==
    /\ wsm.st = "open"
    /\ \E c \in WsmClientIds \ DOMAIN wsm.clients :
        wsm' = [wsm EXCEPT !.last = [op |-> "disconnect unknown", client |-> c, out |-> "returned"]]
    /\ UNCHANGED <<runVars, collect, dispatch, iso, parse, ws, sched, flow>>

WsmInit ==
    /\ wsm = [st |-> "open", clients |-> <<>>, channels |-> <<>>, node_clients |-> <<>>,
              last |-> [op |-> "none", client |-> 0, out |-> "none"]]
    /\ collect = CollectIdle
    /\ dispatch = DispatchIdle
    /\ iso = IsoIdle
    /\ parse = ParseIdle
    /\ ws = WsIdle
    /\ sched = SchedIdle
    /\ flow = FlowIdle
    /\ RunIdle

WsmNext ==
    \/ WsmConnect \/ WsmSubscribe \/ WsmUnsubscribe \/ WsmRegisterNode
    \/ WsmUnregisterNode \/ WsmDisconnect \/ WsmDisconnectUnknown

WsmSpec == WsmInit /\ [][WsmNext]_vars

\* C38: after disconnect(c) for a connected client c, c is no client, c is in
\* no channel's subscriber set, no channel without subscribers remains and no
\* node is mapped to c.
C38_DisconnectRemovesAll ==
    (wsm.st = "open" /\ wsm.last.op = "disconnect") =>
        LET c == wsm.last.client
        IN  /\ c \notin DOMAIN wsm.clients
            /\ \A ch \in DOMAIN wsm.channels : c \notin wsm.channels[ch]
            /\ \A ch \in DOMAIN wsm.channels : wsm.channels[ch] /= {}
            /\ \A n \in DOMAIN wsm.node_clients : wsm.node_clients[n] /= c

\* The same for the disconnects of a client without subscriptions.
C38_HoldsWithoutSubscriptions ==
    (wsm.st = "open" /\ wsm.last.op = "disconnect" /\ wsm.last.out = "returned") =>
        LET c == wsm.last.client
        IN  /\ c \notin DOMAIN wsm.clients
            /\ \A ch \in DOMAIN wsm.channels : c \notin wsm.channels[ch]
            /\ \A ch \in DOMAIN wsm.channels : wsm.channels[ch] /= {}
            /\ \A n \in DOMAIN wsm.node_clients : wsm.node_clients[n] /= c

====
